---- MODULE Spec2Model ----
(***************************************************************************)
(* RSVP / attendance accounting of the student event management backend.   *)
(*                                                                         *)
(* The storage (MongoDB through Mongoose) is modelled as three             *)
(* collections: users, events and rsvps.  Every handler is a sequence of   *)
(* steps, one per storage operation it awaits; a step contains the storage *)
(* operation and the synchronous code that follows it up to the next       *)
(* await.  Spec runs the handlers one request at a time, SpecConc lets two *)
(* requests interleave at the storage boundaries.                          *)
(***************************************************************************)
EXTENDS Integers, FiniteSets, Sequences, TLC

VARIABLES users, events, rsvps, now, req, opsLeft, otps, replaced

vars == <<users, events, rsvps, now, req, opsLeft, otps, replaced>>

(***************************************************************************)
(* Bounds of the model.                                                    *)
(***************************************************************************)
MaxCapacity == 2
MaxGuestInput == 1
MaxTime == 1
MaxOps == 3
MaxOpsCached == 4
MaxOtpTicks == 1

(***************************************************************************)
(* Constants of the program.                                               *)
(***************************************************************************)
MaxGuests == 5
MinGuests == 0

UserIds == {1, 2, 3}
EventIds == {1, 2}
ReqIds == {1, 2}

Statuses == {"pending", "approved", "rejected", "cancelled", "completed"}
RsvpStatuses == {"attending", "waitlisted", "cancelled"}

\* An absent numberOfGuests / status in a request body.
Undef == -1
UndefStatus == "undefined"

EventDate == 1

GuestInputs == 0..MaxGuestInput

(***************************************************************************)
(* Collections.                                                            *)
(***************************************************************************)
\* The rows of one event.
RowsOf(rows, e) == {x \in rows : x.event = e}

\* The rows of one (event, user) pair.
RowsOfPair(rows, e, u) == {x \in rows : x.event = e /\ x.user = u}

\* const totalPeople = 1 + (this.numberOfGuests || 0)
totalPeople(numberOfGuests) == 1 + numberOfGuests

RECURSIVE SumPeople(_)
SumPeople(rows) ==
  IF rows = {} THEN 0
  ELSE LET x == CHOOSE y \in rows : TRUE
       IN totalPeople(x.numberOfGuests) + SumPeople(rows \ {x})

\* RSVP.getActualAttendeeCount: $match {event, status: 'attending'},
\* $sum of 1 + numberOfGuests.
getActualAttendeeCount(rows, e) ==
  SumPeople({x \in RowsOf(rows, e) : x.status = "attending"})

\* RSVP.getUserRSVP: findOne({event, user}); 0 when there is none.
getUserRSVP(rows, e, u) ==
  IF RowsOfPair(rows, e, u) = {} THEN 0
  ELSE (CHOOSE x \in RowsOfPair(rows, e, u) : TRUE).id

RowById(rows, id) == CHOOSE x \in rows : x.id = id

HasRow(rows, id) == \E x \in rows : x.id = id

\* The _id of a newly constructed document.
NewId(rows) == CHOOSE i \in 1..(Cardinality(rows) + 1) : ~HasRow(rows, i)

\* The collection without the unique index.
UniqueIndexAllows_NoIndex(rows, e, u) == TRUE

\* RSVPSchema.index({event: 1, user: 1}, {unique: true}): an insert of a
\* second row of the same pair fails with the duplicate-key error 11000.
UniqueIndexAllows(rows, e, u) == RowsOfPair(rows, e, u) = {}

\* Event.findByIdAndUpdate(id, {$inc: {currentAttendees: d}}): one atomic
\* storage operation, no effect when the event does not exist.
IncAttendees(evs, e, d) ==
  IF e \in EventIds /\ evs[e].exists
  THEN [evs EXCEPT ![e].currentAttendees = @ + d]
  ELSE evs

\* Schema validation of an RSVP document, run by save() before the
\* pre-save hook.
ValidRSVP(status, numberOfGuests) ==
  /\ status \in RsvpStatuses
  /\ numberOfGuests >= MinGuests
  /\ numberOfGuests <= MaxGuests

(***************************************************************************)
(* Email.  sendEmail rethrows a transport failure only when NODE_ENV is    *)
(* development; the transporter is the live one only when NODE_ENV is      *)
(* production, the mock one never fails.                                   *)
(***************************************************************************)
NodeEnvs == {"production", "development"}

TransportCanFail(nodeEnv) == nodeEnv = "production"

\* sendEmail rethrowing in every environment.
sendEmailThrows_Always(nodeEnv, transportFails) == transportFails

sendEmailThrows(nodeEnv, transportFails) ==
  transportFails /\ nodeEnv = "development"

(***************************************************************************)
(* Strings of a request body are sequences of characters; an absent one is *)
(* UndefReason.                                                            *)
(***************************************************************************)
UndefReason == <<"undefined">>

RECURSIVE trimStart(_)
trimStart(s) ==
  IF s # <<>> /\ Head(s) = " " THEN trimStart(Tail(s)) ELSE s

RECURSIVE trimEnd(_)
trimEnd(s) ==
  IF s # <<>> /\ s[Len(s)] = " "
  THEN trimEnd(SubSeq(s, 1, Len(s) - 1)) ELSE s

\* String.prototype.trim
trim(s) == trimEnd(trimStart(s))

\* req.body of the event routes: the keys the handlers and validators read.
NoBody ==
  [status |-> UndefStatus, currentAttendees |-> Undef, capacity |-> Undef,
   date |-> Undef, rejectionReason |-> UndefReason]

(***************************************************************************)
(* Requests.                                                               *)
(***************************************************************************)
IdleReq ==
  [op |-> "idle", pc |-> "idle", user |-> 0, role |-> "none", event |-> 0,
   g |-> Undef, st |-> UndefStatus, cap |-> 0,
   docId |-> 0, isNew |-> FALSE,
   loadedStatus |-> "none", loadedGuests |-> 0,
   status |-> "none", guests |-> 0,
   origStatus |-> "none", origGuests |-> 0,
   resp |-> "none", target |-> 0, newRole |-> "none",
   email |-> 0, purpose |-> "none", code |-> "none", expiresAt |-> 0,
   attempts |-> 0, isVerified |-> FALSE, userId |-> 0, preOtps |-> {},
   preRsvps |-> {}, preEvents |-> <<>>, preNow |-> 0,
   body |-> NoBody, isActive |-> FALSE, mailFailed |-> FALSE,
   password |-> "none", preUsers |-> <<>>]

InFlight == {r \in ReqIds : req[r].pc \notin {"idle", "done"}}
Busy == {r \in ReqIds : req[r].pc # "idle"}

\* protect: the request carries the role stored on the user.
protect(u) == users[u].role

\* protect, step 3: "Check if user still exists".
StillExists(u) == users[u].exists

\* protect without its step 4.
protectError_ExistsOnly(u) ==
  IF ~StillExists(u) THEN "USER_NOT_FOUND" ELSE "none"

\* protect, steps 3 and 4: the error it answers with, "none" when it lets
\* the request through.
protectError(u) ==
  IF ~StillExists(u) THEN "USER_NOT_FOUND"
  ELSE IF ~users[u].isActive THEN "ACCOUNT_INACTIVE"
  ELSE "none"

\* Slot r is free for the next request, limit being the number of requests
\* that may be in the handlers at the same time.
CanStart(r, limit) ==
  /\ opsLeft > 0
  /\ req[r].pc = "idle"
  /\ \A q \in ReqIds : q < r => req[q].pc # "idle"
  /\ Cardinality(Busy) < limit
  /\ \A q \in ReqIds : req[q].pc # "done"

\* A request enters its handler.  limit is the number of requests that may
\* be in the handlers at the same time.
Start(r, limit, op, u, e, g, st) ==
  /\ opsLeft > 0
  /\ req[r].pc = "idle"
  /\ \A q \in ReqIds : q < r => req[q].pc # "idle"
  /\ Cardinality(Busy) < limit
  /\ \A q \in ReqIds : req[q].pc # "done"
  /\ opsLeft' = opsLeft - 1
  /\ req' = [req EXCEPT ![r] =
       [IdleReq EXCEPT !.op = op, !.user = u,
                       !.pc = IF protectError(u) = "none" THEN "begin"
                              ELSE "done",
                       !.resp = protectError(u),
                       !.role = protect(u), !.event = e, !.g = g, !.st = st,
                       !.preRsvps = rsvps, !.preEvents = events,
                       !.preNow = now]]
  /\ UNCHANGED <<users, events, rsvps, now, otps, replaced>>

\* The response is sent: res.status(..).json(..) or next(error).
Respond(r, code) ==
  req' = [req EXCEPT ![r].pc = "done", ![r].resp = code]

\* await send...Email(..), then the success response: the error sendEmail
\* throws goes to the handler's catch block.
RespondAfterMail(r, code) ==
  \E nodeEnv \in NodeEnvs :
    \E transportFails \in
         (IF TransportCanFail(nodeEnv) THEN BOOLEAN ELSE {FALSE}) :
      req' = [req EXCEPT
        ![r].pc = "done", ![r].mailFailed = transportFails,
        ![r].resp = IF sendEmailThrows(nodeEnv, transportFails)
                    THEN "EMAIL_SEND_FAILED" ELSE code]

(***************************************************************************)
(* addRSVP (controllers/event.controller.js).                              *)
(***************************************************************************)
\* The capacity check with >= in the place of >.
IsFull_OffByOne(actualAttendeeCount, totalGuests, capacity) ==
  actualAttendeeCount + totalGuests >= capacity

\* if (actualAttendeeCount + totalGuests > event.capacity)
IsFull(actualAttendeeCount, totalGuests, capacity) ==
  actualAttendeeCount + totalGuests > capacity

\* The date check with < in the place of <=.
IsPast_NotStrict(date, t) == date < t

\* if (new Date(event.date) <= new Date())
IsPast(date, t) == date <= t

\* The role check, Event.findById and the checks of the event read.
EventCheck(role, evs, e, t) ==
  IF role = "admin" THEN "ADMIN_CANNOT_RSVP"
  ELSE IF ~(e \in EventIds /\ evs[e].exists) THEN "EVENT_NOT_FOUND"
  ELSE IF evs[e].status # "approved" THEN "EVENT_NOT_APPROVED"
  ELSE IF IsPast(evs[e].date, t) THEN "EVENT_PAST"
  ELSE "ok"

\* The duplicate check against a status the schema does not have.
AlreadyAttending_WrongStatus(status) == status = "confirmed"

\* if (existingRSVP.status === "attending")
AlreadyAttending(status) == status = "attending"

AddRSVP_Start(r, limit) ==
  /\ CanStart(r, limit)
  /\ \E u \in UserIds, e \in EventIds, g \in GuestInputs :
       Start(r, limit, "addRSVP", u, e, g, UndefStatus)

AddRSVP_Event(r) ==
  /\ req[r].op = "addRSVP" /\ req[r].pc = "begin"
  /\ LET code == EventCheck(req[r].role, events, req[r].event, now)
     IN IF code # "ok"
        THEN Respond(r, code)
        ELSE req' = [req EXCEPT ![r].pc = "count",
                                ![r].cap = events[req[r].event].capacity]
  /\ UNCHANGED <<users, events, rsvps, now, opsLeft, otps, replaced>>

AddRSVP_Count(r) ==
  /\ req[r].op = "addRSVP" /\ req[r].pc = "count"
  /\ LET actualAttendeeCount == getActualAttendeeCount(rsvps, req[r].event)
         totalGuests == 1 + req[r].g
     IN IF IsFull(actualAttendeeCount, totalGuests, req[r].cap)
        THEN Respond(r, "EVENT_FULL")
        ELSE req' = [req EXCEPT ![r].pc = "lookup"]
  /\ UNCHANGED <<users, events, rsvps, now, opsLeft, otps, replaced>>

AddRSVP_Lookup(r) ==
  /\ req[r].op = "addRSVP" /\ req[r].pc = "lookup"
  /\ LET id == getUserRSVP(rsvps, req[r].event, req[r].user)
     IN IF id # 0
        THEN LET existingRSVP == RowById(rsvps, id)
             IN IF AlreadyAttending(existingRSVP.status)
                THEN Respond(r, "ALREADY_RSVPED")
                ELSE req' = [req EXCEPT
                       ![r].pc = "save", ![r].docId = id, ![r].isNew = FALSE,
                       ![r].loadedStatus = existingRSVP.status,
                       ![r].loadedGuests = existingRSVP.numberOfGuests,
                       ![r].status = "attending", ![r].guests = req[r].g]
        ELSE req' = [req EXCEPT
               ![r].pc = "save", ![r].isNew = TRUE,
               ![r].status = "attending", ![r].guests = req[r].g]
  /\ UNCHANGED <<users, events, rsvps, now, opsLeft, otps, replaced>>

AddRSVP_Mail(r) ==
  /\ req[r].op \in {"addRSVP", "addRSVPCached"} /\ req[r].pc = "mail"
  /\ RespondAfterMail(r, IF req[r].isNew THEN "CREATED" ELSE "REACTIVATED")
  /\ UNCHANGED <<users, events, rsvps, now, opsLeft, otps, replaced>>

(***************************************************************************)
(* document.save() of an RSVP: validation, RSVPSchema.pre('save'), then    *)
(* the insert or the update of the modified paths.                         *)
(***************************************************************************)
isModifiedStatus(r) == req[r].status # req[r].loadedStatus
isModifiedGuests(r) == req[r].guests # req[r].loadedGuests

\* The hook decrementing by one person, whatever the guest count.
StatusInc_IgnoresGuests(statusModified, originalStatus, newStatus,
                        originalGuests, newGuests) ==
  IF ~statusModified THEN 0
  ELSE IF originalStatus = "attending" /\ newStatus # "attending"
       THEN 0 - 1
  ELSE IF originalStatus # "attending" /\ newStatus = "attending"
       THEN totalPeople(newGuests)
  ELSE 0

\* The "Handle status changes" branch of the hook: the $inc it sends, 0
\* when it sends none.
StatusInc(statusModified, originalStatus, newStatus, originalGuests, newGuests) ==
  IF ~statusModified THEN 0
  ELSE IF originalStatus = "attending" /\ newStatus # "attending"
       THEN 0 - totalPeople(originalGuests)
  ELSE IF originalStatus # "attending" /\ newStatus = "attending"
       THEN totalPeople(newGuests)
  ELSE 0

\* The "Handle guest count changes" branch of the hook.
GuestInc(guestsModified, newStatus, originalGuests, newGuests) ==
  IF guestsModified /\ newStatus = "attending"
  THEN newGuests - originalGuests
  ELSE 0

HookStatusInc(r, originalStatus, originalGuests) ==
  StatusInc(isModifiedStatus(r), originalStatus, req[r].status,
            originalGuests, req[r].guests)

HookGuestInc(r, originalGuests) ==
  GuestInc(isModifiedGuests(r), req[r].status, originalGuests, req[r].guests)

\* Where the hook goes after it has read the original document.
AfterOriginal(r, originalStatus, originalGuests) ==
  IF HookStatusInc(r, originalStatus, originalGuests) # 0 THEN "inc_status"
  ELSE IF HookGuestInc(r, originalGuests) # 0 THEN "inc_guests"
  ELSE "write"

Save_Begin(r) ==
  /\ req[r].pc = "save"
  /\ IF ~ValidRSVP(req[r].status, req[r].guests)
     THEN /\ Respond(r, "VALIDATION_ERROR")
          /\ UNCHANGED events
     ELSE IF req[r].isNew
     THEN \* if (this.isNew) { if (this.status === "attending") $inc }
          /\ events' = IF req[r].status = "attending"
                       THEN IncAttendees(events, req[r].event,
                                         totalPeople(req[r].guests))
                       ELSE events
          /\ req' = [req EXCEPT ![r].pc = "write"]
     ELSE \* const original = await this.constructor.findById(this._id)
          /\ UNCHANGED events
          /\ IF ~HasRow(rsvps, req[r].docId)
             THEN req' = [req EXCEPT ![r].pc = "write"]
             ELSE LET original == RowById(rsvps, req[r].docId)
                  IN req' = [req EXCEPT
                       ![r].origStatus = original.status,
                       ![r].origGuests = original.numberOfGuests,
                       ![r].pc = AfterOriginal(r, original.status,
                                               original.numberOfGuests)]
  /\ UNCHANGED <<users, rsvps, now, opsLeft, otps, replaced>>

Save_IncStatus(r) ==
  /\ req[r].pc = "inc_status"
  /\ events' = IncAttendees(events, req[r].event,
                 HookStatusInc(r, req[r].origStatus, req[r].origGuests))
  /\ req' = [req EXCEPT ![r].pc =
               IF HookGuestInc(r, req[r].origGuests) # 0
               THEN "inc_guests" ELSE "write"]
  /\ UNCHANGED <<users, rsvps, now, opsLeft, otps, replaced>>

Save_IncGuests(r) ==
  /\ req[r].pc = "inc_guests"
  /\ events' = IncAttendees(events, req[r].event,
                            HookGuestInc(r, req[r].origGuests))
  /\ req' = [req EXCEPT ![r].pc = "write"]
  /\ UNCHANGED <<users, rsvps, now, opsLeft, otps, replaced>>

\* What the handler does once save() has resolved.
AfterSave(r) ==
  IF req[r].op \in {"addRSVP", "addRSVPCached"}
  THEN req' = [req EXCEPT ![r].pc = "mail"]
  ELSE IF req[r].op = "removeRSVP" THEN Respond(r, "CANCELLED")
  ELSE Respond(r, "UPDATED")

\* The catch block of the handler, for the error save() rejected with.
SaveError(r, errorCode) ==
  IF req[r].op \in {"addRSVP", "addRSVPCached"} /\ errorCode = 11000
  THEN Respond(r, "ALREADY_RSVPED")
  ELSE Respond(r, "SERVER_ERROR")

Save_Write(r) ==
  /\ req[r].pc = "write"
  /\ IF req[r].isNew
     THEN IF UniqueIndexAllows(rsvps, req[r].event, req[r].user)
          THEN /\ rsvps' = rsvps \cup
                    {[id |-> NewId(rsvps), event |-> req[r].event,
                      user |-> req[r].user, status |-> req[r].status,
                      numberOfGuests |-> req[r].guests]}
               /\ AfterSave(r)
          ELSE /\ UNCHANGED rsvps
               /\ SaveError(r, 11000)
     ELSE IF ~(isModifiedStatus(r) \/ isModifiedGuests(r))
          THEN /\ UNCHANGED rsvps
               /\ AfterSave(r)
          ELSE IF HasRow(rsvps, req[r].docId)
          THEN /\ rsvps' = {IF x.id = req[r].docId
                            THEN [x EXCEPT
                                   !.status = IF isModifiedStatus(r)
                                              THEN req[r].status ELSE @,
                                   !.numberOfGuests = IF isModifiedGuests(r)
                                                      THEN req[r].guests ELSE @]
                            ELSE x : x \in rsvps}
               /\ AfterSave(r)
          ELSE /\ UNCHANGED rsvps
               /\ SaveError(r, 0)
  /\ UNCHANGED <<users, events, now, opsLeft, otps, replaced>>

(***************************************************************************)
(* removeRSVP (controllers/event.controller.js): cancel, do not delete.    *)
(***************************************************************************)
\* The early return misspelling the status.
AlreadyCancelled_Misspelt(status) == status = "canceled"

\* if (rsvp.status === "cancelled") return res.status(200)
AlreadyCancelled(status) == status = "cancelled"

RemoveRSVP_Start(r, limit) ==
  /\ CanStart(r, limit)
  /\ \E u \in UserIds, e \in EventIds :
       Start(r, limit, "removeRSVP", u, e, Undef, UndefStatus)

RemoveRSVP_Find(r) ==
  /\ req[r].op = "removeRSVP" /\ req[r].pc = "begin"
  /\ LET id == getUserRSVP(rsvps, req[r].event, req[r].user)
     IN IF id = 0
        THEN Respond(r, "RSVP_NOT_FOUND")
        ELSE LET rsvp == RowById(rsvps, id)
             IN IF AlreadyCancelled(rsvp.status)
                THEN Respond(r, "ALREADY_CANCELLED")
                ELSE req' = [req EXCEPT
                       ![r].pc = "save", ![r].docId = id, ![r].isNew = FALSE,
                       ![r].loadedStatus = rsvp.status,
                       ![r].loadedGuests = rsvp.numberOfGuests,
                       ![r].status = "cancelled",
                       ![r].guests = rsvp.numberOfGuests]
  /\ UNCHANGED <<users, events, rsvps, now, opsLeft, otps, replaced>>

(***************************************************************************)
(* removeRSVP of controllers/rsvp.controller.js, the module that           *)
(* routes/rsvp.routes.js imports: RSVP.findOneAndDelete of the attending   *)
(* RSVP.  A query delete runs no document hook, so RSVPSchema.pre('remove')*)
(* does not run and the event is not touched.                              *)
(***************************************************************************)
DeleteRSVP_Start(r, limit) ==
  /\ CanStart(r, limit)
  /\ \E u \in UserIds, e \in EventIds :
       Start(r, limit, "deleteRSVP", u, e, Undef, UndefStatus)

\* findOneAndDelete({event, user, status: "attending"})
findOneAndDelete(rows, e, u) ==
  {x \in rows : ~(x.event = e /\ x.user = u /\ x.status = "attending")}

DeleteRSVP_Delete(r) ==
  /\ req[r].op = "deleteRSVP" /\ req[r].pc = "begin"
  /\ rsvps' = findOneAndDelete(rsvps, req[r].event, req[r].user)
  /\ IF rsvps' = rsvps
     THEN Respond(r, "RSVP_NOT_FOUND")
     ELSE Respond(r, "REMOVED")
  /\ UNCHANGED <<users, events, now, opsLeft, otps, replaced>>

(***************************************************************************)
(* addRSVP of controllers/rsvp.controller.js: the capacity check reads     *)
(* event.currentAttendees, the duplicate check looks for an attending      *)
(* RSVP only, and the RSVP is always inserted as a new document.           *)
(***************************************************************************)
\* The checks of the event read, up to "Check if event is full".
CachedEventCheck(evs, e, t, totalGuests) ==
  IF ~(e \in EventIds /\ evs[e].exists) THEN "EVENT_NOT_FOUND"
  ELSE IF evs[e].status # "approved" THEN "EVENT_NOT_APPROVED"
  ELSE IF IsPast(evs[e].date, t) THEN "EVENT_PAST"
  ELSE IF evs[e].currentAttendees + totalGuests > evs[e].capacity
       THEN "EVENT_FULL"
  ELSE "ok"

AddRSVPCached_Start(r, limit) ==
  /\ CanStart(r, limit)
  /\ \E u \in UserIds, e \in EventIds, g \in GuestInputs :
       Start(r, limit, "addRSVPCached", u, e, g, UndefStatus)

AddRSVPCached_Event(r) ==
  /\ req[r].op = "addRSVPCached" /\ req[r].pc = "begin"
  /\ LET code == CachedEventCheck(events, req[r].event, now, 1 + req[r].g)
     IN IF code # "ok"
        THEN Respond(r, code)
        ELSE req' = [req EXCEPT ![r].pc = "lookup",
                                ![r].cap = events[req[r].event].capacity]
  /\ UNCHANGED <<users, events, rsvps, now, opsLeft, otps, replaced>>

\* RSVP.findOne({event, user, status: "attending"}), then new RSVP(...).
AddRSVPCached_Lookup(r) ==
  /\ req[r].op = "addRSVPCached" /\ req[r].pc = "lookup"
  /\ IF \E x \in RowsOfPair(rsvps, req[r].event, req[r].user) :
          x.status = "attending"
     THEN Respond(r, "ALREADY_RSVPED")
     ELSE req' = [req EXCEPT
            ![r].pc = "save", ![r].isNew = TRUE,
            ![r].status = "attending", ![r].guests = req[r].g]
  /\ UNCHANGED <<users, events, rsvps, now, opsLeft, otps, replaced>>

(***************************************************************************)
(* updateRSVP (controllers/event.controller.js).                           *)
(***************************************************************************)
\* parseInt(numberOfGuests) || rsvp.numberOfGuests || 0
GuestsOr(g, rsvpGuests) == IF g # Undef /\ g # 0 THEN g ELSE rsvpGuests

\* The guest branch without its status test.
UpdatesGuests_AnyStatus(g, status) == g # Undef

\* numberOfGuests !== undefined && rsvp.status === "attending"
UpdatesGuests(g, status) == g # Undef /\ status = "attending"

\* newTotal of the guest-count branch.
newTotal(actualAttendeeCount, rsvpGuests, newGuestCount) ==
  (actualAttendeeCount - totalPeople(rsvpGuests)) + 1 + newGuestCount

UpdateRSVP_Start(r, limit) ==
  /\ CanStart(r, limit)
  /\ \E u \in UserIds, e \in EventIds, g \in GuestInputs \cup {Undef},
        st \in RsvpStatuses \cup {UndefStatus} :
       Start(r, limit, "updateRSVP", u, e, g, st)

UpdateRSVP_Find(r) ==
  /\ req[r].op = "updateRSVP" /\ req[r].pc = "begin"
  /\ LET id == getUserRSVP(rsvps, req[r].event, req[r].user)
     IN IF id = 0
        THEN Respond(r, "RSVP_NOT_FOUND")
        ELSE LET rsvp == RowById(rsvps, id)
             IN req' = [req EXCEPT
                  ![r].pc = "event", ![r].docId = id, ![r].isNew = FALSE,
                  ![r].loadedStatus = rsvp.status,
                  ![r].loadedGuests = rsvp.numberOfGuests,
                  ![r].status = rsvp.status,
                  ![r].guests = rsvp.numberOfGuests]
  /\ UNCHANGED <<users, events, rsvps, now, opsLeft, otps, replaced>>

\* Event.findById and the code up to the next storage operation.
UpdateRSVP_Event(r) ==
  /\ req[r].op = "updateRSVP" /\ req[r].pc = "event"
  /\ LET e == req[r].event
     IN IF ~(e \in EventIds /\ events[e].exists)
        THEN Respond(r, "EVENT_NOT_FOUND")
        ELSE IF req[r].st # UndefStatus /\ req[r].st # req[r].status
        THEN IF req[r].st = "attending"
             THEN req' = [req EXCEPT ![r].pc = "count_status",
                                     ![r].cap = events[e].capacity]
             ELSE req' = [req EXCEPT
                    ![r].status = req[r].st,
                    ![r].cap = events[e].capacity,
                    ![r].pc = IF UpdatesGuests(req[r].g, req[r].st)
                              THEN "count_guests" ELSE "save"]
        ELSE req' = [req EXCEPT
               ![r].cap = events[e].capacity,
               ![r].pc = IF UpdatesGuests(req[r].g, req[r].status)
                         THEN "count_guests" ELSE "save"]
  /\ UNCHANGED <<users, events, rsvps, now, opsLeft, otps, replaced>>

\* "Check capacity before reactivating".
UpdateRSVP_CountStatus(r) ==
  /\ req[r].op = "updateRSVP" /\ req[r].pc = "count_status"
  /\ LET actualAttendeeCount == getActualAttendeeCount(rsvps, req[r].event)
         totalGuests == 1 + GuestsOr(req[r].g, req[r].guests)
     IN IF IsFull(actualAttendeeCount, totalGuests, req[r].cap)
        THEN Respond(r, "CAPACITY_EXCEEDED")
        ELSE req' = [req EXCEPT
               ![r].status = req[r].st,
               ![r].pc = IF UpdatesGuests(req[r].g, req[r].st)
                         THEN "count_guests" ELSE "save"]
  /\ UNCHANGED <<users, events, rsvps, now, opsLeft, otps, replaced>>

\* "Check capacity if updating guests (only if attending)".
UpdateRSVP_CountGuests(r) ==
  /\ req[r].op = "updateRSVP" /\ req[r].pc = "count_guests"
  /\ LET actualAttendeeCount == getActualAttendeeCount(rsvps, req[r].event)
     IN IF newTotal(actualAttendeeCount, req[r].guests, req[r].g) > req[r].cap
        THEN Respond(r, "CAPACITY_EXCEEDED")
        ELSE req' = [req EXCEPT ![r].guests = req[r].g, ![r].pc = "save"]
  /\ UNCHANGED <<users, events, rsvps, now, opsLeft, otps, replaced>>

(***************************************************************************)
(* updateRSVP of controllers/rsvp.controller.js: the capacity check reads  *)
(* the cached event.currentAttendees.                                      *)
(***************************************************************************)
\* event.currentAttendees + guestDiff > event.capacity
CachedIsFull(currentAttendees, guestDiff, capacity) ==
  currentAttendees + guestDiff > capacity

UpdateRSVPCached_Start(r, limit) ==
  /\ CanStart(r, limit)
  /\ \E u \in UserIds, e \in EventIds, g \in GuestInputs \cup {Undef} :
       Start(r, limit, "updateRSVPCached", u, e, g, UndefStatus)

\* RSVP.findOne({event, user, status: "attending"})
UpdateRSVPCached_Find(r) ==
  /\ req[r].op = "updateRSVPCached" /\ req[r].pc = "begin"
  /\ LET found == {x \in RowsOfPair(rsvps, req[r].event, req[r].user) :
                     x.status = "attending"}
     IN IF found = {}
        THEN Respond(r, "RSVP_NOT_FOUND")
        ELSE LET rsvp == CHOOSE x \in found : TRUE
             IN req' = [req EXCEPT
                  ![r].pc = IF req[r].g # Undef THEN "event" ELSE "save",
                  ![r].docId = rsvp.id, ![r].isNew = FALSE,
                  ![r].loadedStatus = rsvp.status,
                  ![r].loadedGuests = rsvp.numberOfGuests,
                  ![r].status = rsvp.status,
                  ![r].guests = rsvp.numberOfGuests]
  /\ UNCHANGED <<users, events, rsvps, now, opsLeft, otps, replaced>>

\* Event.findById and the check; a null event makes the property read throw.
UpdateRSVPCached_Event(r) ==
  /\ req[r].op = "updateRSVPCached" /\ req[r].pc = "event"
  /\ LET event == events[req[r].event]
         guestDiff == req[r].g - req[r].guests
     IN IF ~event.exists
        THEN Respond(r, "SERVER_ERROR")
        ELSE IF CachedIsFull(event.currentAttendees, guestDiff, event.capacity)
        THEN Respond(r, "CAPACITY_EXCEEDED")
        ELSE req' = [req EXCEPT ![r].guests = req[r].g, ![r].pc = "save"]
  /\ UNCHANGED <<users, events, rsvps, now, opsLeft, otps, replaced>>

(***************************************************************************)
(* Event documents.                                                        *)
(***************************************************************************)
\* Event e was created by user e.
NewEvent(status, capacity, createdBy) ==
  [exists |-> TRUE, status |-> status, date |-> EventDate,
   capacity |-> capacity, currentAttendees |-> 0, createdBy |-> createdBy,
   rejectionReason |-> UndefReason]

NoEvent ==
  [exists |-> FALSE, status |-> "pending", date |-> EventDate,
   capacity |-> 1, currentAttendees |-> 0, createdBy |-> 0,
   rejectionReason |-> UndefReason]

(***************************************************************************)
(* Administration (controllers/admin.controller.js) and deleteEvent        *)
(* (controllers/event.controller.js), behind their route middleware.       *)
(***************************************************************************)
Roles == {"student", "admin"}

\* req.params.id is a string; req.userId is currentUser._id, an ObjectId.
StringId(n) == [type |-> "string", hex |-> n]
ObjectId(n) == [type |-> "object", hex |-> n]

\* a === b: operands of different types are never strictly equal.
StrictEquals(a, b) == a.type = b.type /\ a.hex = b.hex

\* if (id === req.userId)
IsSelf(id, userId) == StrictEquals(StringId(id), ObjectId(userId))

\* if (req.userRole !== 'admin') return next(ADMIN_REQUIRED)
restrictToAdmin(role) == role = "admin"

\* createdById && createdById.toString() === req.userId
isOwner(createdBy, userId) ==
  createdBy # 0 /\ StrictEquals(StringId(createdBy), ObjectId(userId))

\* if (!["student", "admin"].includes(role))
ValidRole(role) == role \in Roles

\* A request enters an administration handler for the user id.
StartAdmin(r, limit, op, u, id, role) ==
  /\ opsLeft > 0
  /\ req[r].pc = "idle"
  /\ \A q \in ReqIds : q < r => req[q].pc # "idle"
  /\ Cardinality(Busy) < limit
  /\ \A q \in ReqIds : req[q].pc # "done"
  /\ opsLeft' = opsLeft - 1
  /\ req' = [req EXCEPT ![r] =
       [IdleReq EXCEPT !.op = op, !.user = u,
                       !.pc = IF protectError(u) = "none" THEN "begin"
                              ELSE "done",
                       !.resp = protectError(u),
                       !.role = protect(u), !.target = id, !.newRole = role,
                       !.preRsvps = rsvps, !.preEvents = events,
                       !.preNow = now, !.preUsers = users]]
  /\ UNCHANGED <<users, events, rsvps, now, otps, replaced>>

UpdateUserRole_Start(r, limit) ==
  /\ CanStart(r, limit)
  /\ \E u \in UserIds, id \in UserIds, role \in Roles :
       StartAdmin(r, limit, "updateUserRole", u, id, role)

\* restrictToAdmin, then updateUserRole up to its response.
UpdateUserRole_Update(r) ==
  /\ req[r].op = "updateUserRole" /\ req[r].pc = "begin"
  /\ IF ~restrictToAdmin(req[r].role)
     THEN Respond(r, "ADMIN_REQUIRED") /\ UNCHANGED users
     ELSE IF ~ValidRole(req[r].newRole)
     THEN Respond(r, "INVALID_ROLE") /\ UNCHANGED users
     ELSE IF IsSelf(req[r].target, req[r].user)
     THEN Respond(r, "CANNOT_CHANGE_OWN_ROLE") /\ UNCHANGED users
     ELSE IF ~users[req[r].target].exists
     THEN Respond(r, "USER_NOT_FOUND") /\ UNCHANGED users
     ELSE \* User.findByIdAndUpdate(id, { role })
          /\ users' = [users EXCEPT ![req[r].target].role = req[r].newRole]
          /\ Respond(r, "ROLE_UPDATED")
  /\ UNCHANGED <<events, rsvps, now, opsLeft, otps, replaced>>

DeleteUser_Start(r, limit) ==
  /\ CanStart(r, limit)
  /\ \E u \in UserIds, id \in UserIds :
       StartAdmin(r, limit, "deleteUser", u, id, "none")

\* restrictToAdmin, the self check and User.findById.
DeleteUser_Find(r) ==
  /\ req[r].op = "deleteUser" /\ req[r].pc = "begin"
  /\ IF ~restrictToAdmin(req[r].role)
     THEN Respond(r, "ADMIN_REQUIRED")
     ELSE IF IsSelf(req[r].target, req[r].user)
     THEN Respond(r, "CANNOT_DELETE_SELF")
     ELSE IF ~users[req[r].target].exists
     THEN Respond(r, "USER_NOT_FOUND")
     ELSE req' = [req EXCEPT ![r].pc = "del_events"]
  /\ UNCHANGED <<users, events, rsvps, now, opsLeft, otps, replaced>>

\* Event.deleteMany({ createdBy: id })
DeleteUser_Events(r) ==
  /\ req[r].op = "deleteUser" /\ req[r].pc = "del_events"
  /\ events' = [e \in EventIds |->
                  IF events[e].exists /\ events[e].createdBy = req[r].target
                  THEN NoEvent ELSE events[e]]
  /\ req' = [req EXCEPT ![r].pc = "del_rsvps"]
  /\ UNCHANGED <<users, rsvps, now, opsLeft, otps, replaced>>

\* RSVP.deleteMany({ user: id }): a query delete, no document hook runs.
DeleteUser_Rsvps(r) ==
  /\ req[r].op = "deleteUser" /\ req[r].pc = "del_rsvps"
  /\ rsvps' = {x \in rsvps : x.user # req[r].target}
  /\ req' = [req EXCEPT ![r].pc = "del_user"]
  /\ UNCHANGED <<users, events, now, opsLeft, otps, replaced>>

\* User.findByIdAndDelete(id)
DeleteUser_User(r) ==
  /\ req[r].op = "deleteUser" /\ req[r].pc = "del_user"
  /\ users' = [users EXCEPT ![req[r].target].exists = FALSE]
  /\ Respond(r, "USER_DELETED")
  /\ UNCHANGED <<events, rsvps, now, opsLeft, otps, replaced>>

DeleteEvent_Start(r, limit) ==
  /\ CanStart(r, limit)
  /\ \E u \in UserIds, e \in EventIds :
       Start(r, limit, "deleteEvent", u, e, Undef, UndefStatus)

\* restrictToOwnerOrAdmin("Event")
DeleteEvent_Permission(r) ==
  /\ req[r].op = "deleteEvent" /\ req[r].pc = "begin"
  /\ LET document == events[req[r].event]
     IN IF ~document.exists
        THEN Respond(r, "NOT_FOUND")
        ELSE IF ~isOwner(document.createdBy, req[r].user)
                /\ ~restrictToAdmin(req[r].role)
        THEN Respond(r, "PERMISSION_DENIED")
        ELSE req' = [req EXCEPT ![r].pc = "find"]
  /\ UNCHANGED <<users, events, rsvps, now, opsLeft, otps, replaced>>

\* const event = await Event.findById(id)
DeleteEvent_Find(r) ==
  /\ req[r].op = "deleteEvent" /\ req[r].pc = "find"
  /\ IF ~events[req[r].event].exists
     THEN Respond(r, "EVENT_NOT_FOUND")
     ELSE req' = [req EXCEPT ![r].pc = "del_rsvps"]
  /\ UNCHANGED <<users, events, rsvps, now, opsLeft, otps, replaced>>

\* RSVP.deleteMany({ event: id })
DeleteEvent_Rsvps(r) ==
  /\ req[r].op = "deleteEvent" /\ req[r].pc = "del_rsvps"
  /\ rsvps' = {x \in rsvps : x.event # req[r].event}
  /\ req' = [req EXCEPT ![r].pc = "del_event"]
  /\ UNCHANGED <<users, events, now, opsLeft, otps, replaced>>

\* event.deleteOne()
DeleteEvent_Event(r) ==
  /\ req[r].op = "deleteEvent" /\ req[r].pc = "del_event"
  /\ events' = [events EXCEPT ![req[r].event] = NoEvent]
  /\ Respond(r, "EVENT_DELETED")
  /\ UNCHANGED <<users, rsvps, now, opsLeft, otps, replaced>>

(***************************************************************************)
(* The event workflow (controllers/event.controller.js) behind its route   *)
(* middleware (routes/event.routes.js).  A handler finds the document,     *)
(* assigns to it and saves it; the requests are handled one at a time.     *)
(***************************************************************************)
\* capacity: capacity || 50
DefaultCapacity == 50

\* rejectionReason.trim().length < 5
MinReasonLength == 5

ReasonInputs ==
  {UndefReason, <<>>,
   <<" ", "a", "a", "a", "a", " ">>,
   <<"a", "a", "a", "a", "a">>,
   <<" ", "a", "a", "a", "a", "a", " ">>}

\* A request enters a handler of the event routes.
StartEvent(r, limit, op, u, e, body) ==
  /\ opsLeft > 0
  /\ req[r].pc = "idle"
  /\ \A q \in ReqIds : q < r => req[q].pc # "idle"
  /\ Cardinality(Busy) < limit
  /\ \A q \in ReqIds : req[q].pc # "done"
  /\ opsLeft' = opsLeft - 1
  /\ req' = [req EXCEPT ![r] =
       [IdleReq EXCEPT !.op = op, !.user = u,
                       !.pc = IF protectError(u) = "none" THEN "begin"
                              ELSE "done",
                       !.resp = protectError(u),
                       !.role = protect(u), !.event = e, !.body = body,
                       !.preRsvps = rsvps, !.preEvents = events,
                       !.preNow = now]]
  /\ UNCHANGED <<users, events, rsvps, now, otps, replaced>>

\* The validators of a saved event document; Mongoose validates the paths
\* that were modified.
ValidEvent(stored, doc) ==
  /\ doc.status # stored.status => doc.status \in Statuses
  /\ doc.capacity # stored.capacity => doc.capacity >= 1
  /\ doc.currentAttendees # stored.currentAttendees =>
       doc.currentAttendees >= 0

\* EventSchema.pre('save'): "If event is cancelled, clear capacity".
EventPreSave(doc) ==
  IF doc.status = "cancelled"
  THEN [doc EXCEPT !.currentAttendees = 0]
  ELSE doc

\* eventValidations.createEvent: the date is in the future, the optional
\* capacity an integer of 1..1000.
ValidCreateBody(body, t) ==
  /\ body.date # Undef /\ body.date > t
  /\ body.capacity # Undef => body.capacity >= 1 /\ body.capacity <= 1000

\* The bodies of create-event requests.
CreateBodies ==
  {[NoBody EXCEPT !.status = s, !.currentAttendees = c, !.capacity = k,
                  !.date = EventDate] :
     s \in {UndefStatus, "approved"}, c \in {Undef, 1},
     k \in {Undef, MaxCapacity}}
  \cup {[NoBody EXCEPT !.date = 0],
        [NoBody EXCEPT !.date = EventDate, !.capacity = 0]}

\* A document built from the status and currentAttendees of the body.
NewEventDoc_FromBody(body, userId) ==
  [exists |-> TRUE,
   status |-> IF body.status = UndefStatus THEN "pending" ELSE body.status,
   date |-> body.date,
   capacity |-> IF body.capacity = Undef \/ body.capacity = 0
                THEN DefaultCapacity ELSE body.capacity,
   currentAttendees |-> IF body.currentAttendees = Undef THEN 0
                        ELSE body.currentAttendees,
   createdBy |-> userId, rejectionReason |-> UndefReason]

\* new Event({ ..., capacity: capacity || 50, createdBy: req.userId,
\* status: "pending" }), with the schema default of currentAttendees.
NewEventDoc(body, userId) ==
  [exists |-> TRUE, status |-> "pending", date |-> body.date,
   capacity |-> IF body.capacity = Undef \/ body.capacity = 0
                THEN DefaultCapacity ELSE body.capacity,
   currentAttendees |-> 0, createdBy |-> userId,
   rejectionReason |-> UndefReason]

\* The _id of the next event document.
NewEventId == CHOOSE e \in EventIds :
  ~events[e].exists /\ \A f \in EventIds : ~events[f].exists => e <= f

CreateEvent_Start(r, limit) ==
  /\ CanStart(r, limit)
  /\ \E e \in EventIds : ~events[e].exists
  /\ \E u \in UserIds, body \in CreateBodies :
       StartEvent(r, limit, "createEvent", u, 0, body)

\* eventValidations.createEvent, then createEvent up to its response.
CreateEvent_Create(r) ==
  /\ req[r].op = "createEvent" /\ req[r].pc = "begin"
  /\ IF ~ValidCreateBody(req[r].body, now)
     THEN Respond(r, "VALIDATION_ERROR") /\ UNCHANGED events
     ELSE IF req[r].body.date <= now
     THEN Respond(r, "INVALID_DATE") /\ UNCHANGED events
     ELSE /\ events' = [events EXCEPT ![NewEventId] =
                          EventPreSave(NewEventDoc(req[r].body, req[r].user))]
          /\ req' = [req EXCEPT ![r].pc = "done", ![r].event = NewEventId,
                                ![r].resp = "EVENT_CREATED"]
  /\ UNCHANGED <<users, rsvps, now, opsLeft, otps, replaced>>

\* The bodies of update-event requests.
UpdateBodies ==
  {[NoBody EXCEPT !.status = s] : s \in Statuses}
  \cup {[NoBody EXCEPT !.status = s, !.currentAttendees = 1,
                       !.capacity = MaxCapacity] :
          s \in {UndefStatus, "approved", "cancelled"}}
  \cup {[NoBody EXCEPT !.capacity = 0]}
  \cup {[NoBody EXCEPT !.date = d] : d \in {0, EventDate}}

\* The bodies that name the status alone.
StatusBodies == {[NoBody EXCEPT !.status = s] : s \in Statuses}

\* Object.keys(updateData).forEach((key) => { if (key !== "status" ||
\* req.userRole === "admin") event[key] = updateData[key] })
Assigned(event, body, role) ==
  [event EXCEPT
     !.status = IF body.status # UndefStatus /\ role = "admin"
                THEN body.status ELSE @,
     !.currentAttendees = IF body.currentAttendees # Undef
                          THEN body.currentAttendees ELSE @,
     !.capacity = IF body.capacity # Undef THEN body.capacity ELSE @,
     !.date = IF body.date # Undef THEN body.date ELSE @]

UpdateEvent_Start(r, limit, bodies) ==
  /\ CanStart(r, limit)
  /\ \E u \in UserIds, e \in EventIds, body \in bodies :
       StartEvent(r, limit, "updateEvent", u, e, body)

\* restrictToOwnerOrAdmin("Event") of the PUT route.
UpdateEvent_Permission(r) ==
  /\ req[r].op = "updateEvent" /\ req[r].pc = "begin"
  /\ LET document == events[req[r].event]
     IN IF ~document.exists
        THEN Respond(r, "NOT_FOUND")
        ELSE IF ~isOwner(document.createdBy, req[r].user)
                /\ ~restrictToAdmin(req[r].role)
        THEN Respond(r, "PERMISSION_DENIED")
        ELSE req' = [req EXCEPT ![r].pc = "find"]
  /\ UNCHANGED <<users, events, rsvps, now, opsLeft, otps, replaced>>

\* updateEvent: findById, the date check, the assignments and save().
UpdateEvent_Save(r) ==
  /\ req[r].op = "updateEvent" /\ req[r].pc = "find"
  /\ LET event == events[req[r].event]
         doc == Assigned(event, req[r].body, req[r].role)
     IN IF ~event.exists
        THEN Respond(r, "EVENT_NOT_FOUND") /\ UNCHANGED events
        ELSE IF req[r].body.date # Undef /\ req[r].body.date <= now
        THEN Respond(r, "INVALID_DATE") /\ UNCHANGED events
        ELSE IF ~ValidEvent(event, doc)
        THEN Respond(r, "SERVER_ERROR") /\ UNCHANGED events
        ELSE /\ events' = [events EXCEPT ![req[r].event] = EventPreSave(doc)]
             /\ Respond(r, "EVENT_UPDATED")
  /\ UNCHANGED <<users, rsvps, now, opsLeft, otps, replaced>>

ApproveEvent_Start(r, limit) ==
  /\ CanStart(r, limit)
  /\ \E u \in UserIds, e \in EventIds :
       StartEvent(r, limit, "approveEvent", u, e, NoBody)

\* restrictToAdmin, then approveEvent up to its response.  The (populated)
\* creator is read for the mail after the save.
ApproveEvent_Approve(r) ==
  /\ req[r].op = "approveEvent" /\ req[r].pc = "begin"
  /\ LET event == events[req[r].event]
         doc == [event EXCEPT !.status = "approved",
                              !.rejectionReason = UndefReason]
     IN IF ~restrictToAdmin(req[r].role)
        THEN Respond(r, "ADMIN_REQUIRED") /\ UNCHANGED events
        ELSE IF ~event.exists
        THEN Respond(r, "EVENT_NOT_FOUND") /\ UNCHANGED events
        ELSE IF ~ValidEvent(event, doc)
        THEN Respond(r, "SERVER_ERROR") /\ UNCHANGED events
        ELSE /\ events' = [events EXCEPT ![req[r].event] = EventPreSave(doc)]
             /\ IF ~users[event.createdBy].exists
                THEN Respond(r, "SERVER_ERROR")
                ELSE RespondAfterMail(r, "EVENT_APPROVED")
  /\ UNCHANGED <<users, rsvps, now, opsLeft, otps, replaced>>

\* The bodies of reject-event requests.
RejectBodies ==
  {[NoBody EXCEPT !.status = s, !.rejectionReason = t] :
     s \in {UndefStatus, "pending", "rejected"}, t \in ReasonInputs}

\* eventValidations.updateEventStatus: status is one of three values.  The
\* reason is optional and at most 500 characters, which every reason of
\* ReasonInputs is.
ValidStatusBody(body) == body.status \in {"approved", "rejected", "cancelled"}

\* body("rejectionReason").optional().trim(): the body the handler reads.
Sanitized(body) ==
  [body EXCEPT !.rejectionReason = IF @ = UndefReason THEN @ ELSE trim(@)]

\* if (!rejectionReason || rejectionReason.trim().length < 5)
InvalidReason(rejectionReason) ==
  \/ rejectionReason = UndefReason
  \/ rejectionReason = <<>>
  \/ Len(trim(rejectionReason)) < MinReasonLength

RejectEvent_Start(r, limit) ==
  /\ CanStart(r, limit)
  /\ \E u \in UserIds, e \in EventIds, body \in RejectBodies :
       StartEvent(r, limit, "rejectEvent", u, e, body)

\* restrictToAdmin and eventValidations.updateEventStatus, then rejectEvent
\* up to its response.
RejectEvent_Reject(r) ==
  /\ req[r].op = "rejectEvent" /\ req[r].pc = "begin"
  /\ LET event == events[req[r].event]
         rejectionReason == Sanitized(req[r].body).rejectionReason
         doc == [event EXCEPT !.status = "rejected",
                              !.rejectionReason = trim(rejectionReason)]
     IN IF ~restrictToAdmin(req[r].role)
        THEN Respond(r, "ADMIN_REQUIRED") /\ UNCHANGED events
        ELSE IF ~ValidStatusBody(req[r].body)
        THEN Respond(r, "VALIDATION_ERROR") /\ UNCHANGED events
        ELSE IF InvalidReason(rejectionReason)
        THEN Respond(r, "INVALID_REJECTION_REASON") /\ UNCHANGED events
        ELSE IF ~event.exists
        THEN Respond(r, "EVENT_NOT_FOUND") /\ UNCHANGED events
        ELSE IF ~ValidEvent(event, doc)
        THEN Respond(r, "SERVER_ERROR") /\ UNCHANGED events
        ELSE /\ events' = [events EXCEPT ![req[r].event] = EventPreSave(doc)]
             /\ IF ~users[event.createdBy].exists
                THEN Respond(r, "SERVER_ERROR")
                ELSE RespondAfterMail(r, "EVENT_REJECTED")
  /\ UNCHANGED <<users, rsvps, now, opsLeft, otps, replaced>>

(***************************************************************************)
(* OTP records (models/Otp.model.js).  An email is named by the user it    *)
(* belongs to; the clock is in minutes.  replaced remembers the codes of   *)
(* the unverified records that the latest createOTP deleted.               *)
(***************************************************************************)
NoneReplaced == [email |-> 0, purpose |-> "none", codes |-> {}]

OtpEmails == {1}
OtpPurposes == {"registration", "password_reset"}
OtpCodes == {"111111", "222222"}

\* expiresAt.setMinutes(expiresAt.getMinutes() + 10)
OtpWindowMinutes == 10
\* attempts: max 5, and the cap tested by verifyOTP.
MaxAttempts == 5

\* The clock moves by more than the window.
ClockStep == OtpWindowMinutes + 1

\* A lookup by email alone.
OtpsOf_AnyPurpose(rows, email, purpose) ==
  {x \in rows : x.email = email}

\* The records a query on { email, purpose } matches.
OtpsOf(rows, email, purpose) ==
  {x \in rows : x.email = email /\ x.purpose = purpose}

\* createOTP without its deleteMany.
DeletedByCreate_Nothing(rows, email, purpose) == {}

\* deleteMany({ email, purpose }): the records it deletes.
DeletedByCreate(rows, email, purpose) == OtpsOf(rows, email, purpose)

\* The filter dropping the verified flag.
Unverified_AnyRecord(rows, email, purpose) == OtpsOf(rows, email, purpose)

\* findOne({ email, purpose, isVerified: false }): the records it may return.
Unverified(rows, email, purpose) ==
  {x \in OtpsOf(rows, email, purpose) : ~x.isVerified}

\* A fresh _id, written as the least number that no stored record and no
\* request holds for the (email, purpose) of the new record.
NewOtpId(email, purpose) ==
  CHOOSE i \in 1..(Cardinality(otps) + Cardinality(ReqIds) + 1) :
    /\ \A x \in OtpsOf(otps, email, purpose) : x.id # i
    /\ \A q \in ReqIds :
         req[q].email = email /\ req[q].purpose = purpose => req[q].docId # i

\* The stored document with the _id of document doc.
SameOtp(x, email, purpose, id) ==
  x.email = email /\ x.purpose = purpose /\ x.id = id

\* The expiry check with its operands exchanged.
OtpExpired_Reversed(t, expiresAt) == expiresAt > t

\* if (new Date() > this.expiresAt)
OtpExpired(t, expiresAt) == t > expiresAt

\* The attempt cap with > in the place of >=.
AttemptsExceeded_OneMore(attempts) == attempts > MaxAttempts

\* if (this.attempts >= 5)
AttemptsExceeded(attempts) == attempts >= MaxAttempts

\* verifyOTP(inputCode): the message, and the document as the method leaves
\* it in memory.
verifyOTP(doc, inputCode, t) ==
  IF OtpExpired(t, doc.expiresAt)
  THEN [message |-> "EXPIRED", doc |-> doc]
  ELSE IF AttemptsExceeded(doc.attempts)
  THEN [message |-> "ATTEMPTS_EXCEEDED", doc |-> doc]
  ELSE IF doc.code # inputCode
  THEN [message |-> "INVALID_CODE",
        doc |-> [doc EXCEPT !.attempts = @ + 1]]
  ELSE [message |-> "VERIFIED",
        doc |-> [doc EXCEPT !.attempts = @ + 1, !.isVerified = TRUE]]

\* The schema validation of a saved OTP document: attempts max 5.
ValidOtp(doc) == doc.attempts <= MaxAttempts

\* A request enters createOTP or validateOTP.
StartOtp(r, limit, op, email, purpose, code) ==
  /\ req[r].pc = "idle"
  /\ \A q \in ReqIds : q < r => req[q].pc # "idle"
  /\ Cardinality(Busy) < limit
  /\ \A q \in ReqIds : req[q].pc # "done"
  /\ req' = [req EXCEPT ![r] =
       [IdleReq EXCEPT !.op = op, !.pc = "begin", !.email = email,
                       !.purpose = purpose, !.code = code,
                       !.preOtps = OtpsOf(otps, email, purpose),
                       !.preNow = now]]
  /\ UNCHANGED <<users, events, rsvps, now, opsLeft, otps, replaced>>

CreateOTP_Start(r, limit) ==
  \E email \in OtpEmails, purpose \in OtpPurposes :
    StartOtp(r, limit, "createOTP", email, purpose, "none")

\* deleteMany({ email, purpose }), then generateOTP and the expiry date.
CreateOTP_Delete(r) ==
  /\ req[r].op = "createOTP" /\ req[r].pc = "begin"
  /\ otps' = otps \ DeletedByCreate(otps, req[r].email, req[r].purpose)
  /\ replaced' =
       [email |-> req[r].email, purpose |-> req[r].purpose,
        codes |-> {x.code : x \in Unverified(otps, req[r].email, req[r].purpose)}]
  /\ \E otpCode \in OtpCodes :
       req' = [req EXCEPT ![r].pc = "insert", ![r].code = otpCode,
                          ![r].expiresAt = now + OtpWindowMinutes,
                          ![r].userId = req[r].email]
  /\ UNCHANGED <<users, events, rsvps, now, opsLeft>>

\* otp.save() of the new record.
CreateOTP_Insert(r) ==
  /\ req[r].op = "createOTP" /\ req[r].pc = "insert"
  /\ otps' = otps \cup
       {[id |-> NewOtpId(req[r].email, req[r].purpose), email |-> req[r].email, purpose |-> req[r].purpose,
         code |-> req[r].code, expiresAt |-> req[r].expiresAt,
         attempts |-> 0, isVerified |-> FALSE, userId |-> req[r].userId]}
  /\ Respond(r, "ISSUED")
  /\ UNCHANGED <<users, events, rsvps, now, opsLeft, replaced>>

ValidateOTP_Start(r, limit) ==
  \E email \in OtpEmails, purpose \in OtpPurposes, code \in OtpCodes :
    StartOtp(r, limit, "validateOTP", email, purpose, code)

\* The same for the purpose validateOTP defaults to.
ValidateOTP_StartDefault(r, limit) ==
  \E email \in OtpEmails, code \in OtpCodes :
    StartOtp(r, limit, "validateOTP", email, "registration", code)

\* findOne and otp.verifyOTP(code).
ValidateOTP_Find(r) ==
  /\ req[r].op = "validateOTP" /\ req[r].pc = "begin"
  /\ LET found == Unverified(otps, req[r].email, req[r].purpose)
     IN IF found = {}
        THEN Respond(r, "NOT_FOUND")
        ELSE \E otp \in found :
               LET verificationResult == verifyOTP(otp, req[r].code, now)
               IN req' = [req EXCEPT
                    ![r].pc = "otp_save", ![r].docId = otp.id,
                    ![r].resp = verificationResult.message,
                    ![r].attempts = verificationResult.doc.attempts,
                    ![r].isVerified = verificationResult.doc.isVerified,
                    ![r].userId = otp.userId,
                    ![r].isNew = verificationResult.doc # otp]
  /\ UNCHANGED <<users, events, rsvps, now, opsLeft, otps, replaced>>

\* otp.save(): nothing is sent when no path was modified; a modified
\* document is validated and updated by _id, and the update of a document
\* that is no longer stored rejects.
ValidateOTP_Save(r) ==
  /\ req[r].op = "validateOTP" /\ req[r].pc = "otp_save"
  /\ IF ~req[r].isNew
     THEN /\ UNCHANGED otps
          /\ req' = [req EXCEPT ![r].pc = "done"]
     ELSE IF ~ValidOtp([attempts |-> req[r].attempts])
             \/ \A x \in otps :
                  ~SameOtp(x, req[r].email, req[r].purpose, req[r].docId)
     THEN /\ UNCHANGED otps
          /\ Respond(r, "OTP_VALIDATION_FAILED")
     ELSE /\ otps' = {IF SameOtp(x, req[r].email, req[r].purpose, req[r].docId)
                      THEN [x EXCEPT !.attempts = req[r].attempts,
                                     !.isVerified = req[r].isVerified]
                      ELSE x : x \in otps}
          /\ req' = [req EXCEPT ![r].pc = "done"]
  /\ UNCHANGED <<users, events, rsvps, now, opsLeft, replaced>>

\* The TTL index on expiresAt (expireAfterSeconds: 0): the records whose
\* expiry has passed are deleted in the background.
TtlExpire ==
  /\ \E x \in otps : x.expiresAt < now
  /\ otps' = {x \in otps : ~(x.expiresAt < now)}
  /\ UNCHANGED <<users, events, rsvps, now, req, opsLeft, replaced>>

\* Time passes on the OTP clock.
TickOtp ==
  /\ now < MaxOtpTicks * ClockStep
  /\ now' = now + ClockStep
  /\ UNCHANGED <<users, events, rsvps, req, opsLeft, otps, replaced>>

StepOtp(r) ==
  \/ CreateOTP_Delete(r)
  \/ CreateOTP_Insert(r)
  \/ ValidateOTP_Find(r)
  \/ ValidateOTP_Save(r)

(***************************************************************************)
(* Accounts: register and verifyOTP of the auth controller and             *)
(* updateUserStatus of controllers/admin.controller.js.  The email of a    *)
(* user is named by the user's id.                                         *)
(***************************************************************************)
\* A request enters register or verifyOTP; the routes are public.
StartAccount(r, limit, op, email, code) ==
  /\ opsLeft > 0
  /\ req[r].pc = "idle"
  /\ \A q \in ReqIds : q < r => req[q].pc # "idle"
  /\ Cardinality(Busy) < limit
  /\ \A q \in ReqIds : req[q].pc # "done"
  /\ opsLeft' = opsLeft - 1
  /\ req' = [req EXCEPT ![r] =
       [IdleReq EXCEPT !.op = op, !.pc = "begin", !.email = email,
                       !.purpose = "registration", !.code = code,
                       !.preOtps = OtpsOf(otps, email, "registration"),
                       !.preRsvps = rsvps, !.preEvents = events,
                       !.preNow = now]]
  /\ UNCHANGED <<users, events, rsvps, now, otps, replaced>>

\* new User({ ..., role: "student", isActive: false })
NewUser ==
  [exists |-> TRUE, role |-> "student", isActive |-> FALSE,
   password |-> "initial"]

Register_Start(r, limit) ==
  /\ CanStart(r, limit)
  /\ \E email \in OtpEmails :
       StartAccount(r, limit, "register", email, "none")

\* User.findOne({ email }) and user.save().
Register_User(r) ==
  /\ req[r].op = "register" /\ req[r].pc = "begin"
  /\ IF users[req[r].email].exists
     THEN Respond(r, "USER_EXISTS") /\ UNCHANGED users
     ELSE /\ users' = [users EXCEPT ![req[r].email] = NewUser]
          /\ req' = [req EXCEPT ![r].pc = "otp"]
  /\ UNCHANGED <<events, rsvps, now, opsLeft, otps, replaced>>

\* OTP.createOTP(email, "registration", user._id)
Register_Otp(r) ==
  /\ req[r].op = "register" /\ req[r].pc = "otp"
  /\ \E otpCode \in OtpCodes :
       /\ otps' = (otps \ DeletedByCreate(otps, req[r].email, req[r].purpose))
            \cup {[id |-> NewOtpId(req[r].email, req[r].purpose),
                   email |-> req[r].email, purpose |-> req[r].purpose,
                   code |-> otpCode, expiresAt |-> now + OtpWindowMinutes,
                   attempts |-> 0, isVerified |-> FALSE,
                   userId |-> req[r].email]}
       /\ req' = [req EXCEPT ![r].pc = "mail", ![r].code = otpCode]
  /\ replaced' =
       [email |-> req[r].email, purpose |-> req[r].purpose,
        codes |-> {x.code : x \in Unverified(otps, req[r].email, req[r].purpose)}]
  /\ UNCHANGED <<users, events, rsvps, now, opsLeft>>

\* await sendRegistrationOTP(..) and the response.
Register_Mail(r) ==
  /\ req[r].op = "register" /\ req[r].pc = "mail"
  /\ RespondAfterMail(r, "REGISTERED")
  /\ UNCHANGED <<users, events, rsvps, now, opsLeft, otps, replaced>>

VerifyOTP_Start(r, limit) ==
  /\ CanStart(r, limit)
  /\ \E email \in OtpEmails, code \in OtpCodes :
       StartAccount(r, limit, "verifyOTP", email, code)

\* OTP.validateOTP(email, otpCode, "registration"): findOne, verifyOTP and
\* otp.save().
VerifyOTP_Validate(r) ==
  /\ req[r].op = "verifyOTP" /\ req[r].pc = "begin"
  /\ LET found == Unverified(otps, req[r].email, req[r].purpose)
     IN IF found = {}
        THEN Respond(r, "OTP_VALIDATION_FAILED") /\ UNCHANGED otps
        ELSE \E otp \in found :
               LET verificationResult == verifyOTP(otp, req[r].code, now)
               IN IF verificationResult.doc # otp
                     /\ ~ValidOtp(verificationResult.doc)
                  THEN Respond(r, "SERVER_ERROR") /\ UNCHANGED otps
                  ELSE /\ otps' = (otps \ {otp}) \cup {verificationResult.doc}
                       /\ IF verificationResult.message = "VERIFIED"
                          THEN req' = [req EXCEPT ![r].pc = "activate"]
                          ELSE Respond(r, "OTP_VALIDATION_FAILED")
  /\ UNCHANGED <<users, events, rsvps, now, opsLeft, replaced>>

\* User.findOneAndUpdate({ email }, { isActive: true })
VerifyOTP_Activate(r) ==
  /\ req[r].op = "verifyOTP" /\ req[r].pc = "activate"
  /\ IF ~users[req[r].email].exists
     THEN Respond(r, "USER_NOT_FOUND") /\ UNCHANGED users
     ELSE /\ users' = [users EXCEPT ![req[r].email].isActive = TRUE]
          /\ Respond(r, "ACCOUNT_VERIFIED")
  /\ UNCHANGED <<events, rsvps, now, opsLeft, otps, replaced>>

\* A request enters updateUserStatus for the user id; the route validator
\* lets a boolean isActive through.
UpdateUserStatus_Start(r, limit) ==
  /\ opsLeft > 0
  /\ req[r].pc = "idle"
  /\ \A q \in ReqIds : q < r => req[q].pc # "idle"
  /\ Cardinality(Busy) < limit
  /\ \A q \in ReqIds : req[q].pc # "done"
  /\ opsLeft' = opsLeft - 1
  /\ \E u \in UserIds, id \in UserIds, isActive \in BOOLEAN :
       req' = [req EXCEPT ![r] =
         [IdleReq EXCEPT !.op = "updateUserStatus", !.user = u,
                         !.pc = IF protectError(u) = "none" THEN "begin"
                                ELSE "done",
                         !.resp = protectError(u),
                         !.role = protect(u), !.target = id,
                         !.isActive = isActive,
                         !.preRsvps = rsvps, !.preEvents = events,
                         !.preNow = now, !.preUsers = users]]
  /\ UNCHANGED <<users, events, rsvps, now, otps, replaced>>

\* restrictToAdmin, then updateUserStatus up to its response.
UpdateUserStatus_Update(r) ==
  /\ req[r].op = "updateUserStatus" /\ req[r].pc = "begin"
  /\ IF ~restrictToAdmin(req[r].role)
     THEN Respond(r, "ADMIN_REQUIRED") /\ UNCHANGED users
     ELSE IF IsSelf(req[r].target, req[r].user) /\ ~req[r].isActive
     THEN Respond(r, "CANNOT_DEACTIVATE_SELF") /\ UNCHANGED users
     ELSE IF ~users[req[r].target].exists
     THEN Respond(r, "USER_NOT_FOUND") /\ UNCHANGED users
     ELSE \* User.findByIdAndUpdate(id, { isActive })
          /\ users' = [users EXCEPT ![req[r].target].isActive = req[r].isActive]
          /\ Respond(r, "STATUS_UPDATED")
  /\ UNCHANGED <<events, rsvps, now, opsLeft, otps, replaced>>

(***************************************************************************)
(* login, refreshToken, requestPasswordReset and resetPassword             *)
(* (auth.controller.js).  A user's _id is written as the user's email; a   *)
(* token names the user it was issued to.                                  *)
(***************************************************************************)
\* The passwords of the requests; "short" has fewer than 6 characters.
Passwords == {"initial", "changed", "short"}

\* password: minlength 6
ValidPassword(password) == password # "short"

\* A request enters a public handler of the auth routes.
StartAuth(r, limit, op, u, email, purpose, code, password) ==
  /\ opsLeft' = opsLeft - 1
  /\ req' = [req EXCEPT ![r] =
       [IdleReq EXCEPT !.op = op, !.pc = "begin", !.user = u,
                       !.email = email, !.purpose = purpose, !.code = code,
                       !.password = password,
                       !.preOtps = OtpsOf(otps, email, purpose),
                       !.preNow = now, !.preUsers = users]]
  /\ UNCHANGED <<users, events, rsvps, now, otps, replaced>>

Login_Start(r, limit) ==
  /\ CanStart(r, limit)
  /\ \E email \in OtpEmails, password \in Passwords \ {"short"} :
       StartAuth(r, limit, "login", 0, email, "none", "none", password)

\* The checks of login in their order.
loginError(user, password) ==
  IF ~user.exists THEN "INVALID_CREDENTIALS"
  ELSE IF ~user.isActive THEN "ACCOUNT_INACTIVE"
  ELSE IF user.password # password THEN "INVALID_CREDENTIALS"
  ELSE "none"

Login_Check(r) ==
  /\ req[r].op = "login" /\ req[r].pc = "begin"
  /\ LET code == loginError(users[req[r].email], req[r].password)
     IN Respond(r, IF code # "none" THEN code ELSE "LOGIN_OK")
  /\ UNCHANGED <<users, events, rsvps, now, opsLeft, otps, replaced>>

\* The request carries a refresh token issued to user u.
RefreshToken_Start(r, limit) ==
  /\ CanStart(r, limit)
  /\ \E u \in UserIds :
       StartAuth(r, limit, "refreshToken", u, 0, "none", "none", "none")

\* if (!user || !user.isActive)
RefreshToken_Check(r) ==
  /\ req[r].op = "refreshToken" /\ req[r].pc = "begin"
  /\ IF ~users[req[r].user].exists \/ ~users[req[r].user].isActive
     THEN Respond(r, "USER_INVALID")
     ELSE Respond(r, "TOKEN_REFRESHED")
  /\ UNCHANGED <<users, events, rsvps, now, opsLeft, otps, replaced>>

RequestPasswordReset_Start(r, limit) ==
  /\ CanStart(r, limit)
  /\ \E email \in OtpEmails :
       StartAuth(r, limit, "requestPasswordReset", 0, email,
                 "password_reset", "none", "none")

\* User.findOne({ email }) and OTP.createOTP(email, "password_reset",
\* user._id).
RequestPasswordReset_Otp(r) ==
  /\ req[r].op = "requestPasswordReset" /\ req[r].pc = "begin"
  /\ IF ~users[req[r].email].exists
     THEN Respond(r, "USER_NOT_FOUND") /\ UNCHANGED <<otps, replaced>>
     ELSE /\ \E otpCode \in OtpCodes :
               /\ otps' =
                    (otps \ DeletedByCreate(otps, req[r].email, req[r].purpose))
                    \cup {[id |-> NewOtpId(req[r].email, req[r].purpose),
                           email |-> req[r].email, purpose |-> req[r].purpose,
                           code |-> otpCode,
                           expiresAt |-> now + OtpWindowMinutes,
                           attempts |-> 0, isVerified |-> FALSE,
                           userId |-> req[r].email]}
               /\ req' = [req EXCEPT ![r].pc = "mail", ![r].code = otpCode]
          /\ replaced' =
               [email |-> req[r].email, purpose |-> req[r].purpose,
                codes |-> {x.code : x \in Unverified(otps, req[r].email,
                                                     req[r].purpose)}]
  /\ UNCHANGED <<users, events, rsvps, now, opsLeft>>

\* await sendPasswordResetOTP(..) and the response.
RequestPasswordReset_Mail(r) ==
  /\ req[r].op = "requestPasswordReset" /\ req[r].pc = "mail"
  /\ RespondAfterMail(r, "RESET_SENT")
  /\ UNCHANGED <<users, events, rsvps, now, opsLeft, otps, replaced>>

ResetPassword_Start(r, limit) ==
  /\ CanStart(r, limit)
  /\ \E email \in OtpEmails, code \in OtpCodes,
        newPassword \in Passwords \ {"initial"} :
       StartAuth(r, limit, "resetPassword", 0, email, "password_reset", code,
                 newPassword)

\* The test of the validation result, always passed.
ResultSuccess_Always(message) == TRUE

\* result.success
ResultSuccess(message) == message = "VERIFIED"

\* OTP.validateOTP(email, otpCode, "password_reset"): findOne, verifyOTP and
\* otp.save(); then if (!result.success).
ResetPassword_Validate(r) ==
  /\ req[r].op = "resetPassword" /\ req[r].pc = "begin"
  /\ LET found == Unverified(otps, req[r].email, req[r].purpose)
     IN IF found = {}
        THEN /\ UNCHANGED otps
             /\ IF ResultSuccess("NOT_FOUND")
                THEN req' = [req EXCEPT ![r].pc = "reset"]
                ELSE Respond(r, "OTP_VALIDATION_FAILED")
        ELSE \E otp \in found :
               LET verificationResult == verifyOTP(otp, req[r].code, now)
               IN IF verificationResult.doc # otp
                     /\ ~ValidOtp(verificationResult.doc)
                  THEN Respond(r, "SERVER_ERROR") /\ UNCHANGED otps
                  ELSE /\ otps' = (otps \ {otp}) \cup {verificationResult.doc}
                       /\ IF ResultSuccess(verificationResult.message)
                          THEN req' = [req EXCEPT
                                 ![r].pc = "reset",
                                 ![r].isVerified =
                                   verificationResult.doc.isVerified,
                                 ![r].userId = otp.userId]
                          ELSE Respond(r, "OTP_VALIDATION_FAILED")
  /\ UNCHANGED <<users, events, rsvps, now, opsLeft, replaced>>

\* User.findById(result.userId), user.password = newPassword, user.save().
\* result.userId is undefined when the validation found no record.
ResetPassword_Save(r) ==
  /\ req[r].op = "resetPassword" /\ req[r].pc = "reset"
  /\ IF ~(req[r].userId \in UserIds /\ users[req[r].userId].exists)
     THEN Respond(r, "USER_NOT_FOUND") /\ UNCHANGED users
     ELSE IF ~ValidPassword(req[r].password)
     THEN Respond(r, "VALIDATION_ERROR") /\ UNCHANGED users
     ELSE /\ users' = [users EXCEPT
                         ![req[r].userId].password = req[r].password]
          /\ Respond(r, "PASSWORD_RESET")
  /\ UNCHANGED <<events, rsvps, now, opsLeft, otps, replaced>>

(***************************************************************************)
(* Environment.                                                            *)
(***************************************************************************)
\* Time passes.
Tick ==
  /\ now < MaxTime
  /\ now' = now + 1
  /\ UNCHANGED <<users, events, rsvps, req, opsLeft, otps, replaced>>

\* The responses have been delivered; the handlers are free again.
Finish ==
  /\ InFlight = {}
  /\ Busy # {}
  /\ req' = [r \in ReqIds |-> IdleReq]
  /\ UNCHANGED <<users, events, rsvps, now, opsLeft, otps, replaced>>

(***************************************************************************)
(* Initial state: two students and an admin.  Event 1 was created and      *)
(* approved; event 2 does not exist, or is in some state of the workflow.  *)
(* No RSVP has been made yet.                                              *)
(***************************************************************************)
\* Event 1 alone, with every capacity.
InitEventsOne ==
  {[e \in EventIds |-> IF e = 1 THEN NewEvent("approved", c, e) ELSE NoEvent] :
     c \in 1..MaxCapacity}

\* Event 1 and an event 2 in every status.
InitEventsTwo ==
  {[e \in EventIds |-> IF e = 1 THEN NewEvent("approved", 1, e)
                                ELSE NewEvent(s, 1, e)] : s \in Statuses}

InitWith(evs, ops) ==
  /\ users = [u \in UserIds |->
               [exists |-> TRUE, role |-> IF u = 3 THEN "admin" ELSE "student",
                isActive |-> TRUE, password |-> "initial"]]
  /\ events \in evs
  /\ rsvps = {}
  /\ now = 0
  /\ req = [r \in ReqIds |-> IdleReq]
  /\ opsLeft = ops
  /\ otps = {}
  /\ replaced = NoneReplaced

Init == InitWith(InitEventsOne \cup InitEventsTwo, MaxOps)

InitConc == InitWith(InitEventsOne, MaxOps)

InitCached == InitWith(InitEventsOne, MaxOpsCached)

\* No event has been created.
InitOtp == InitWith({[e \in EventIds |-> NoEvent]}, MaxOps)

Step(r) ==
  \/ AddRSVP_Event(r)
  \/ AddRSVP_Count(r)
  \/ AddRSVP_Lookup(r)
  \/ AddRSVP_Mail(r)
  \/ RemoveRSVP_Find(r)
  \/ Save_Begin(r)
  \/ Save_IncStatus(r)
  \/ Save_IncGuests(r)
  \/ Save_Write(r)

StepUpdate(r) ==
  \/ UpdateRSVP_Find(r)
  \/ UpdateRSVP_Event(r)
  \/ UpdateRSVP_CountStatus(r)
  \/ UpdateRSVP_CountGuests(r)

\* The handlers run to completion, one request at a time.
Next ==
  \/ \E r \in ReqIds : AddRSVP_Start(r, 1)
  \/ \E r \in ReqIds : RemoveRSVP_Start(r, 1)
  \/ \E r \in ReqIds : UpdateRSVP_Start(r, 1)
  \/ \E r \in ReqIds : Step(r)
  \/ \E r \in ReqIds : StepUpdate(r)
  \/ Finish
  \/ Tick

Spec == Init /\ [][Next]_vars

\* Two add or cancel requests interleave at the storage operations, while
\* the events are in the future.
NextConc ==
  \/ \E r \in ReqIds : AddRSVP_Start(r, 2)
  \/ \E r \in ReqIds : RemoveRSVP_Start(r, 2)
  \/ \E r \in ReqIds : Step(r)
  \/ Finish

SpecConc == InitConc /\ [][NextConc]_vars

\* The handlers of both controller modules, one request at a time.
NextBoth ==
  \/ Next
  \/ \E r \in ReqIds : DeleteRSVP_Start(r, 1)
  \/ \E r \in ReqIds : DeleteRSVP_Delete(r)

SpecBoth == Init /\ [][NextBoth]_vars

\* The same, with the addRSVP of controllers/rsvp.controller.js.
NextLegacy ==
  \/ NextBoth
  \/ \E r \in ReqIds : AddRSVPCached_Start(r, 1)
  \/ \E r \in ReqIds : AddRSVPCached_Event(r)
  \/ \E r \in ReqIds : AddRSVPCached_Lookup(r)

SpecLegacy == Init /\ [][NextLegacy]_vars

StepCached(r) ==
  \/ UpdateRSVPCached_Find(r)
  \/ UpdateRSVPCached_Event(r)

\* Adding, cancelling and the guest update of controllers/rsvp.controller.js,
\* one request at a time, while the event is in the future.
NextCached ==
  \/ \E r \in ReqIds : AddRSVP_Start(r, 1)
  \/ \E r \in ReqIds : RemoveRSVP_Start(r, 1)
  \/ \E r \in ReqIds : UpdateRSVPCached_Start(r, 1)
  \/ \E r \in ReqIds : Step(r)
  \/ \E r \in ReqIds : StepCached(r)
  \/ Finish

SpecCached == InitCached /\ [][NextCached]_vars

\* Issuing and validating OTPs, one request at a time.
NextOtp ==
  \/ \E r \in ReqIds : CreateOTP_Start(r, 1)
  \/ \E r \in ReqIds : ValidateOTP_Start(r, 1)
  \/ \E r \in ReqIds : StepOtp(r)
  \/ Finish
  \/ TickOtp
  \/ TtlExpire

SpecOtp == InitOtp /\ [][NextOtp]_vars

\* Two createOTP requests interleave at the storage operations.
NextOtpConc ==
  \/ \E r \in ReqIds : CreateOTP_Start(r, 2)
  \/ \E r \in ReqIds : CreateOTP_Delete(r)
  \/ \E r \in ReqIds : CreateOTP_Insert(r)
  \/ Finish
  \/ TickOtp

SpecOtpConc == InitOtp /\ [][NextOtpConc]_vars

StepAdmin(r) ==
  \/ UpdateUserRole_Update(r)
  \/ DeleteUser_Find(r)
  \/ DeleteUser_Events(r)
  \/ DeleteUser_Rsvps(r)
  \/ DeleteUser_User(r)
  \/ DeleteEvent_Permission(r)
  \/ DeleteEvent_Find(r)
  \/ DeleteEvent_Rsvps(r)
  \/ DeleteEvent_Event(r)

\* The RSVP handlers together with the administration handlers, one
\* request at a time.
NextAdmin ==
  \/ \E r \in ReqIds : AddRSVP_Start(r, 1)
  \/ \E r \in ReqIds : RemoveRSVP_Start(r, 1)
  \/ \E r \in ReqIds : UpdateRSVP_Start(r, 1)
  \/ \E r \in ReqIds : UpdateUserRole_Start(r, 1)
  \/ \E r \in ReqIds : DeleteUser_Start(r, 1)
  \/ \E r \in ReqIds : DeleteEvent_Start(r, 1)
  \/ \E r \in ReqIds : Step(r)
  \/ \E r \in ReqIds : StepUpdate(r)
  \/ \E r \in ReqIds : StepAdmin(r)
  \/ Finish

SpecAdmin == Init /\ [][NextAdmin]_vars

\* Event 1 was created by user 1 and is in some status of the workflow;
\* event 2 has not been created.
InitEventsAny ==
  {[e \in EventIds |-> IF e = 1 THEN NewEvent(s, 1, e) ELSE NoEvent] :
     s \in Statuses}

InitWorkflow == InitWith(InitEventsAny, MaxOps)

StepEvent(r) ==
  \/ CreateEvent_Create(r)
  \/ UpdateEvent_Permission(r)
  \/ UpdateEvent_Save(r)
  \/ ApproveEvent_Approve(r)
  \/ RejectEvent_Reject(r)
  \/ DeleteEvent_Permission(r)
  \/ DeleteEvent_Find(r)
  \/ DeleteEvent_Rsvps(r)
  \/ DeleteEvent_Event(r)

\* The handlers of the event routes, one request at a time.
NextEvents ==
  \/ \E r \in ReqIds : CreateEvent_Start(r, 1)
  \/ \E r \in ReqIds : UpdateEvent_Start(r, 1, UpdateBodies)
  \/ \E r \in ReqIds : ApproveEvent_Start(r, 1)
  \/ \E r \in ReqIds : RejectEvent_Start(r, 1)
  \/ \E r \in ReqIds : DeleteEvent_Start(r, 1)
  \/ \E r \in ReqIds : StepEvent(r)
  \/ Finish

SpecEvents == InitWorkflow /\ [][NextEvents]_vars

\* The RSVP handlers and the status updates of update-event, one request at
\* a time, while the events are in the future.
NextCancel ==
  \/ \E r \in ReqIds : AddRSVP_Start(r, 1)
  \/ \E r \in ReqIds : RemoveRSVP_Start(r, 1)
  \/ \E r \in ReqIds : UpdateRSVP_Start(r, 1)
  \/ \E r \in ReqIds : UpdateEvent_Start(r, 1, StatusBodies)
  \/ \E r \in ReqIds : Step(r)
  \/ \E r \in ReqIds : StepUpdate(r)
  \/ \E r \in ReqIds : UpdateEvent_Permission(r)
  \/ \E r \in ReqIds : UpdateEvent_Save(r)
  \/ Finish

SpecCancel == InitConc /\ [][NextCancel]_vars

\* User 1 has not registered; event 1 was created by user 2 and is pending
\* or approved.  No RSVP has been made and no OTP issued.
InitAccounts ==
  /\ users = [u \in UserIds |->
               IF u = 1
               THEN [exists |-> FALSE, role |-> "student", isActive |-> FALSE,
                     password |-> "initial"]
               ELSE [exists |-> TRUE,
                     role |-> IF u = 3 THEN "admin" ELSE "student",
                     isActive |-> TRUE, password |-> "initial"]]
  /\ events \in {[e \in EventIds |-> IF e = 1 THEN NewEvent(s, c, 2)
                                              ELSE NoEvent] :
                   s \in {"pending", "approved"}, c \in 1..MaxCapacity}
  /\ rsvps = {}
  /\ now = 0
  /\ req = [r \in ReqIds |-> IdleReq]
  /\ opsLeft = MaxOps
  /\ otps = {}
  /\ replaced = NoneReplaced

StepAccount(r) ==
  \/ Register_User(r)
  \/ Register_Otp(r)
  \/ Register_Mail(r)
  \/ VerifyOTP_Validate(r)
  \/ VerifyOTP_Activate(r)
  \/ UpdateUserStatus_Update(r)

\* Registration and activation together with the handlers that send mail,
\* one request at a time.
NextAccounts ==
  \/ \E r \in ReqIds : Register_Start(r, 1)
  \/ \E r \in ReqIds : VerifyOTP_Start(r, 1)
  \/ \E r \in ReqIds : UpdateUserStatus_Start(r, 1)
  \/ \E r \in ReqIds : AddRSVP_Start(r, 1)
  \/ \E r \in ReqIds : RemoveRSVP_Start(r, 1)
  \/ \E r \in ReqIds : ApproveEvent_Start(r, 1)
  \/ \E r \in ReqIds : RejectEvent_Start(r, 1)
  \/ \E r \in ReqIds : StepAccount(r)
  \/ \E r \in ReqIds : Step(r)
  \/ \E r \in ReqIds : ApproveEvent_Approve(r)
  \/ \E r \in ReqIds : RejectEvent_Reject(r)
  \/ Finish

SpecAccounts == InitAccounts /\ [][NextAccounts]_vars

\* Sessions and password resets beside the account administration, one
\* request at a time.
NextAuth ==
  \/ \E r \in ReqIds : Login_Start(r, 1)
  \/ \E r \in ReqIds : Login_Check(r)
  \/ \E r \in ReqIds : RefreshToken_Start(r, 1)
  \/ \E r \in ReqIds : RefreshToken_Check(r)
  \/ \E r \in ReqIds : RequestPasswordReset_Start(r, 1)
  \/ \E r \in ReqIds : RequestPasswordReset_Otp(r)
  \/ \E r \in ReqIds : RequestPasswordReset_Mail(r)
  \/ \E r \in ReqIds : ResetPassword_Start(r, 1)
  \/ \E r \in ReqIds : ResetPassword_Validate(r)
  \/ \E r \in ReqIds : ResetPassword_Save(r)
  \/ \E r \in ReqIds : UpdateUserStatus_Start(r, 1)
  \/ \E r \in ReqIds : UpdateUserStatus_Update(r)
  \/ \E r \in ReqIds : DeleteUser_Start(r, 1)
  \/ \E r \in ReqIds : DeleteUser_Find(r)
  \/ \E r \in ReqIds : DeleteUser_Events(r)
  \/ \E r \in ReqIds : DeleteUser_Rsvps(r)
  \/ \E r \in ReqIds : DeleteUser_User(r)
  \/ Finish
  \/ TickOtp

SpecAuth == InitOtp /\ [][NextAuth]_vars

\* A registration issues the OTP record; two validateOTP requests for it
\* interleave at the storage operations.
NextOtpValidate ==
  \/ \E r \in ReqIds : Register_Start(r, 1)
  \/ \E r \in ReqIds : Register_User(r)
  \/ \E r \in ReqIds : Register_Otp(r)
  \/ \E r \in ReqIds : Register_Mail(r)
  \/ \E r \in ReqIds : ValidateOTP_StartDefault(r, 2)
  \/ \E r \in ReqIds : ValidateOTP_Find(r)
  \/ \E r \in ReqIds : ValidateOTP_Save(r)
  \/ Finish

SpecOtpValidate == InitAccounts /\ [][NextOtpValidate]_vars

(***************************************************************************)
(* Vocabulary of the properties.                                           *)
(***************************************************************************)
\* Request r has been answered by handler op.
Answered(r, op) == req[r].op = op /\ req[r].pc = "done"

AddSucceeded(r) == req[r].resp \in {"CREATED", "REACTIVATED"}

\* The row of the request's (event, user) pair before and after the request.
PreRows(r) == RowsOfPair(req[r].preRsvps, req[r].event, req[r].user)
PostRows(r) == RowsOfPair(rsvps, req[r].event, req[r].user)

PreAttending(r) == \E x \in PreRows(r) : x.status = "attending"

PreCount(r) == req[r].preEvents[req[r].event].currentAttendees
PostCount(r) == events[req[r].event].currentAttendees

\* The request changed no RSVP row and no event.
NothingChanged(r) == rsvps = req[r].preRsvps /\ events = req[r].preEvents

\* The request's event is approved and still in the future.
ApprovedFuture(r) ==
  /\ events[req[r].event].exists
  /\ events[req[r].event].status = "approved"
  /\ events[req[r].event].date > now

Occupancy(rows, e) == getActualAttendeeCount(rows, e)

(***************************************************************************)
(* C1.  Between requests, every approved event's currentAttendees equals   *)
(* the sum of 1 + numberOfGuests over its attending RSVPs.                 *)
(***************************************************************************)
C1_OccupancyInvariant ==
  InFlight = {} =>
    \A e \in EventIds :
      (events[e].exists /\ events[e].status = "approved")
        => events[e].currentAttendees = Occupancy(rsvps, e)

(***************************************************************************)
(* C2.  Two interleaved addRSVP requests of different users for the same   *)
(* event do not both succeed when the attending RSVPs then exceed the      *)
(* event's capacity.                                                       *)
(***************************************************************************)
BothAdded(r, q) ==
  /\ r # q
  /\ Answered(r, "addRSVP") /\ Answered(q, "addRSVP")
  /\ req[r].event = req[q].event
  /\ AddSucceeded(r) /\ AddSucceeded(q)

C2_NoJointOvershoot ==
  \A r, q \in ReqIds :
    (BothAdded(r, q) /\ req[r].user # req[q].user)
      => Occupancy(rsvps, req[r].event) <= events[req[r].event].capacity

(***************************************************************************)
(* C3.  For an approved future event and a non-admin user without an       *)
(* attending RSVP, addRSVP with g guests succeeds exactly when             *)
(* occupancy + 1 + g <= capacity, and then the user's RSVP is attending    *)
(* with g guests; otherwise the answer is EVENT_FULL and no RSVP row and   *)
(* no counter has changed.                                                 *)
(***************************************************************************)
C3_Case(r) ==
  /\ Answered(r, "addRSVP")
  /\ req[r].role # "admin"
  /\ ApprovedFuture(r)
  /\ ~PreAttending(r)

Fits(r) ==
  Occupancy(req[r].preRsvps, req[r].event) + 1 + req[r].g
    <= req[r].preEvents[req[r].event].capacity

C3_CapacityBoundary ==
  \A r \in ReqIds :
    C3_Case(r) =>
      IF Fits(r)
      THEN /\ AddSucceeded(r)
           /\ \E x \in PostRows(r) :
                x.status = "attending" /\ x.numberOfGuests = req[r].g
      ELSE /\ req[r].resp = "EVENT_FULL"
           /\ NothingChanged(r)

\* The event was filled exactly to its capacity by an RSVP with guests, and
\* the next RSVP has been refused.
C3_Witness ==
  \E r \in ReqIds :
    /\ C3_Case(r) /\ req[r].resp = "EVENT_FULL"
    /\ Occupancy(rsvps, req[r].event) = events[req[r].event].capacity
    /\ \E x \in RowsOf(rsvps, req[r].event) :
         x.status = "attending" /\ x.numberOfGuests > 0

(***************************************************************************)
(* C4.  A reactivation (addRSVP on a cancelled RSVP, or updateRSVP with    *)
(* status attending) raises the event's counter by exactly 1 + the new     *)
(* guest count.                                                            *)
(***************************************************************************)
Reactivated(r) ==
  /\ req[r].pc = "done"
  /\ \/ req[r].op = "addRSVP" /\ req[r].resp = "REACTIVATED"
     \/ req[r].op = "updateRSVP" /\ req[r].resp = "UPDATED"
  /\ \E x \in PreRows(r) : x.status = "cancelled"
  /\ \E x \in PostRows(r) : x.status = "attending"

C4_ReactivationNotDoubled ==
  \A r \in ReqIds :
    Reactivated(r) =>
      \A x \in PostRows(r) :
        PostCount(r) - PreCount(r) = 1 + x.numberOfGuests

(***************************************************************************)
(* C5.  A second addRSVP of a user who holds an attending RSVP for the     *)
(* event is answered ALREADY_RSVPED and changes nothing.                   *)
(***************************************************************************)
C5_Case(r) ==
  /\ Answered(r, "addRSVP")
  /\ req[r].role # "admin"
  /\ ApprovedFuture(r)
  /\ PreAttending(r)

C5_DuplicateAlreadyRsvped ==
  \A r \in ReqIds :
    C5_Case(r) => (req[r].resp = "ALREADY_RSVPED" /\ NothingChanged(r))

\* C5 as amended: ALREADY_RSVPED when the repeated request would still fit
\* in the event, EVENT_FULL when it would not; nothing changes either way.
C5_DuplicateRejected ==
  \A r \in ReqIds :
    C5_Case(r) =>
      /\ req[r].resp = (IF Fits(r) THEN "ALREADY_RSVPED" ELSE "EVENT_FULL")
      /\ NothingChanged(r)

C5_Witness_AlreadyRsvped ==
  \E r \in ReqIds : C5_Case(r) /\ req[r].resp = "ALREADY_RSVPED"

(***************************************************************************)
(* C6.  There is at most one RSVP row per (event, user), and of two        *)
(* racing first-time addRSVP requests of one user for one event one is     *)
(* answered CREATED and the other ALREADY_RSVPED.                          *)
(***************************************************************************)
\* Both requests found no RSVP of the user and went on to create one.
CreateRace(r, q) ==
  /\ r # q
  /\ Answered(r, "addRSVP") /\ Answered(q, "addRSVP")
  /\ req[r].event = req[q].event /\ req[r].user = req[q].user
  /\ req[r].isNew /\ req[q].isNew

C6_OneRowPerPair ==
  /\ \A x, y \in rsvps : (x.event = y.event /\ x.user = y.user) => x = y
  /\ \A r, q \in ReqIds :
       CreateRace(r, q) =>
         {req[r].resp, req[q].resp} = {"CREATED", "ALREADY_RSVPED"}

C6_Witness ==
  \E r, q \in ReqIds :
    /\ CreateRace(r, q)
    /\ req[q].resp = "ALREADY_RSVPED"
    /\ Cardinality(PostRows(r)) = 1

(***************************************************************************)
(* C7.  After such a race the counter has grown by the contribution of     *)
(* the one row that was created, and by nothing for the failed create.     *)
(* Request 1 is the first of the two to enter its handler.                 *)
(***************************************************************************)
C7_FailedCreateNotCounted ==
  \A r, q \in ReqIds :
    (CreateRace(r, q) /\ req[r].resp = "CREATED"
                      /\ req[q].resp = "ALREADY_RSVPED")
      => PostCount(r) - req[1].preEvents[req[r].event].currentAttendees
           = 1 + req[r].g

(***************************************************************************)
(* C8.  removeRSVP of a cancelled RSVP answers with success and changes    *)
(* neither the RSVP nor any counter.                                       *)
(***************************************************************************)
C8_Case(r) ==
  /\ Answered(r, "removeRSVP")
  /\ \E x \in PreRows(r) : x.status = "cancelled"

C8_CancelIdempotent ==
  \A r \in ReqIds :
    C8_Case(r) => (req[r].resp = "ALREADY_CANCELLED" /\ NothingChanged(r))

C8_Witness ==
  \E r \in ReqIds : C8_Case(r) /\ req[r].resp = "ALREADY_CANCELLED"

(***************************************************************************)
(* C9.  removeRSVP of an attending RSVP keeps the row, sets its status to  *)
(* cancelled and lowers the event's counter by 1 + the guest count of the  *)
(* row; nothing else changes.                                              *)
(***************************************************************************)
C9_Case(r) == Answered(r, "removeRSVP") /\ PreAttending(r)

Cancelled(x) == [x EXCEPT !.status = "cancelled"]

\* The row x is kept as cancelled and its contribution has left the counter.
CancelEffect(r, x) ==
  /\ rsvps = (req[r].preRsvps \ {x}) \cup {Cancelled(x)}
  /\ events = [req[r].preEvents EXCEPT
                 ![x.event].currentAttendees = @ - (1 + x.numberOfGuests)]

\* The handler of controllers/event.controller.js.
C9_CancelDecrements ==
  \A r \in ReqIds :
    C9_Case(r) =>
      \A x \in PreRows(r) : req[r].resp = "CANCELLED" /\ CancelEffect(r, x)

\* The handlers of both controller modules.
C9_EveryCancelDecrements ==
  \A r \in ReqIds :
    ((Answered(r, "removeRSVP") \/ Answered(r, "deleteRSVP")) /\ PreAttending(r))
      => \A x \in PreRows(r) : CancelEffect(r, x)

C9_Witness ==
  \E r \in ReqIds :
    /\ C9_Case(r) /\ req[r].resp = "CANCELLED"
    /\ \E x \in PostRows(r) : x.status = "cancelled" /\ x.numberOfGuests > 0

(***************************************************************************)
(* C10.  addRSVP creates or reactivates an RSVP only for a non-admin       *)
(* caller and an existing, approved event whose date is strictly in the    *)
(* future; otherwise it answers ADMIN_CANNOT_RSVP, EVENT_NOT_FOUND,        *)
(* EVENT_NOT_APPROVED or EVENT_PAST, in this order, and changes nothing.   *)
(***************************************************************************)
\* The precondition that fails when the request arrives.
Refusal(r) ==
  LET e == req[r].event
      ev == req[r].preEvents[e]
  IN IF req[r].role = "admin" THEN "ADMIN_CANNOT_RSVP"
     ELSE IF ~ev.exists THEN "EVENT_NOT_FOUND"
     ELSE IF ev.status # "approved" THEN "EVENT_NOT_APPROVED"
     ELSE IF ~(ev.date > req[r].preNow) THEN "EVENT_PAST"
     ELSE "none"

C10_Preconditions ==
  \A r \in ReqIds :
    Answered(r, "addRSVP") =>
      /\ Refusal(r) # "none"
           => (req[r].resp = Refusal(r) /\ NothingChanged(r))
      /\ AddSucceeded(r) => Refusal(r) = "none"
      /\ req[r].resp \in {"ADMIN_CANNOT_RSVP", "EVENT_NOT_FOUND",
                          "EVENT_NOT_APPROVED", "EVENT_PAST"}
           => NothingChanged(r)

\* An RSVP to an event whose date is the present instant has been refused.
C10_Witness ==
  \E r \in ReqIds :
    /\ Answered(r, "addRSVP") /\ req[r].resp = "EVENT_PAST"
    /\ req[r].preEvents[req[r].event].date = req[r].preNow

(***************************************************************************)
(* C11.  A request of addRSVP or updateRSVP that makes an RSVP attending,  *)
(* or changes the guest count of an attending RSVP, was made on an event   *)
(* that was approved and whose date was strictly in the future.            *)
(***************************************************************************)
BecameAttending(r) ==
  /\ \E y \in PostRows(r) : y.status = "attending"
  /\ ~PreAttending(r)

AttendingGuestsChanged(r) ==
  \E x \in PreRows(r), y \in PostRows(r) :
    /\ x.status = "attending" /\ y.status = "attending"
    /\ x.numberOfGuests # y.numberOfGuests

OpenAtRequest(r) ==
  /\ req[r].preEvents[req[r].event].exists
  /\ req[r].preEvents[req[r].event].status = "approved"
  /\ req[r].preEvents[req[r].event].date > req[r].preNow

C11_MutationRevalidates ==
  \A r \in ReqIds :
    /\ Answered(r, "addRSVP") \/ Answered(r, "updateRSVP")
    /\ BecameAttending(r) \/ AttendingGuestsChanged(r)
    => OpenAtRequest(r)

(***************************************************************************)
(* C12.  No user whose role is admin holds an attending RSVP.              *)
(***************************************************************************)
C12_NoAdminAttending ==
  \A x \in rsvps :
    x.status = "attending" /\ users[x.user].exists
    => users[x.user].role # "admin"

(***************************************************************************)
(* C13.  A guest-count update of an attending RSVP to g is refused with    *)
(* CAPACITY_EXCEEDED, changing nothing, exactly when the occupancy without *)
(* this RSVP plus 1 + g exceeds the capacity; otherwise the RSVP's guest   *)
(* count becomes g and the counter moves by g minus the old guest count.   *)
(***************************************************************************)
\* The request asks an attending RSVP for a new guest count.
C13_Case(r, op) ==
  /\ Answered(r, op)
  /\ req[r].g # Undef
  /\ req[r].st \in {UndefStatus, "attending"}
  /\ PreAttending(r)

OldGuests(r) == (CHOOSE x \in PreRows(r) : TRUE).numberOfGuests

OccupancyWithout(r) ==
  Occupancy(req[r].preRsvps, req[r].event) - totalPeople(OldGuests(r))

GuestUpdateEffect(r) ==
  IF OccupancyWithout(r) + 1 + req[r].g > req[r].preEvents[req[r].event].capacity
  THEN req[r].resp = "CAPACITY_EXCEEDED" /\ NothingChanged(r)
  ELSE /\ req[r].resp = "UPDATED"
       /\ \A y \in PostRows(r) :
            y.status = "attending" /\ y.numberOfGuests = req[r].g
       /\ PostCount(r) - PreCount(r) = req[r].g - OldGuests(r)

\* updateRSVP of controllers/event.controller.js.
C13_GuestUpdate ==
  \A r \in ReqIds : C13_Case(r, "updateRSVP") => GuestUpdateEffect(r)

\* updateRSVP of controllers/rsvp.controller.js.
C13_GuestUpdateCached ==
  \A r \in ReqIds : C13_Case(r, "updateRSVPCached") => GuestUpdateEffect(r)

C13_Witness ==
  \E r \in ReqIds :
    /\ C13_Case(r, "updateRSVP")
    /\ req[r].resp = "CAPACITY_EXCEEDED"
    /\ OccupancyWithout(r) + 1 + req[r].g
         = req[r].preEvents[req[r].event].capacity + 1

(***************************************************************************)
(* C14.  After deleteUser has deleted a user, none of the user's RSVPs is  *)
(* left and every remaining event's counter has gone down by the           *)
(* 1 + numberOfGuests of each attending RSVP the user had on it.           *)
(***************************************************************************)
UserDeleted(r) == Answered(r, "deleteUser") /\ req[r].resp = "USER_DELETED"

\* What the attending RSVPs of user u contributed to event e.
Contribution(rows, e, u) ==
  SumPeople({x \in rows : x.event = e /\ x.user = u /\ x.status = "attending"})

C14_DeleteUserDecrements ==
  \A r \in ReqIds :
    UserDeleted(r) =>
      /\ \A x \in rsvps : x.user # req[r].target
      /\ \A e \in EventIds :
           events[e].exists =>
             events[e].currentAttendees =
               req[r].preEvents[e].currentAttendees
                 - Contribution(req[r].preRsvps, e, req[r].target)

(***************************************************************************)
(* C15.  Between requests every RSVP row references an event that exists.  *)
(***************************************************************************)
C15_NoOrphanRsvp ==
  InFlight = {} => \A x \in rsvps : events[x.event].exists

(***************************************************************************)
(* Vocabulary of the OTP properties.                                       *)
(***************************************************************************)
\* The unverified records of the request's (email, purpose) when it began,
\* and the records of that pair now.
PreUnverified(r) == {x \in req[r].preOtps : ~x.isVerified}
PostOtps(r) == OtpsOf(otps, req[r].email, req[r].purpose)

\* Record x has not expired yet.
StillValid(x) == now <= x.expiresAt

(***************************************************************************)
(* C16.  Against an unverified, unexpired record a validation with a wrong *)
(* code fails with INVALID_CODE and stores the incremented attempt counter *)
(* while the counter is below 5; once the counter is 5 every validation,   *)
(* right code or wrong, fails with ATTEMPTS_EXCEEDED and the record stays  *)
(* unverified.                                                             *)
(***************************************************************************)
C16_AttemptCap ==
  \A r \in ReqIds :
    Answered(r, "validateOTP") =>
      \A x \in PreUnverified(r) :
        StillValid(x) =>
          IF x.attempts >= 5
          THEN req[r].resp = "ATTEMPTS_EXCEEDED" /\ PostOtps(r) = {x}
          ELSE req[r].code # x.code =>
                 /\ req[r].resp = "INVALID_CODE"
                 /\ PostOtps(r) = {[x EXCEPT !.attempts = @ + 1]}

\* The sixth validation, with the right code.
C16_Witness ==
  \E r \in ReqIds :
    /\ Answered(r, "validateOTP")
    /\ req[r].resp = "ATTEMPTS_EXCEEDED"
    /\ \E x \in PreUnverified(r) :
         x.attempts = 5 /\ req[r].code = x.code /\ StillValid(x)

(***************************************************************************)
(* C17.  A validation that begins after the record's expiry time.          *)
(***************************************************************************)
C17_Case(r) ==
  /\ Answered(r, "validateOTP")
  /\ \E x \in PreUnverified(r) : x.expiresAt < req[r].preNow

\* C17 as stated: it fails with EXPIRED and the record keeps its counter
\* and flag.
C17_ExpiredRejected ==
  \A r \in ReqIds :
    C17_Case(r) => req[r].resp = "EXPIRED" /\ PostOtps(r) \subseteq req[r].preOtps

\* C17.  A validation that begins after the record's expiry time is never
\* accepted, whatever the code: it fails with EXPIRED while the record is
\* stored and with NOT_FOUND once the TTL index has removed it, and a record
\* that is still stored keeps its attempt counter and verified flag.
C17_ExpiredNeverAccepted ==
  \A r \in ReqIds :
    C17_Case(r) =>
      /\ req[r].resp \in {"EXPIRED", "NOT_FOUND"}
      /\ PostOtps(r) \subseteq req[r].preOtps
      /\ PostOtps(r) # {} => req[r].resp = "EXPIRED"

C17_Witness ==
  \E r \in ReqIds :
    /\ C17_Case(r)
    /\ req[r].resp = "EXPIRED"
    /\ \E x \in PreUnverified(r) : req[r].code = x.code /\ x \in otps

(***************************************************************************)
(* C18.  A validation with the code of an unverified record that createOTP *)
(* has replaced.                                                           *)
(***************************************************************************)
C18_Case(r) ==
  /\ Answered(r, "validateOTP")
  /\ replaced.email = req[r].email /\ replaced.purpose = req[r].purpose
  /\ req[r].code \in replaced.codes

\* C18 as stated: the old code fails with NOT_FOUND.
C18_OldCodeNotFound ==
  \A r \in ReqIds : C18_Case(r) => req[r].resp = "NOT_FOUND"

\* C18.  After a new OTP is issued for (email, purpose), a validation with
\* the code of a replaced unverified OTP of that pair, when it differs from
\* the new code, is not accepted: while the new record is unverified,
\* unexpired and below 5 attempts it fails with INVALID_CODE and counts as
\* an attempt against the new record; it fails with NOT_FOUND when no
\* unverified record is stored for the pair.
C18_OldCodeNotAccepted ==
  \A r \in ReqIds :
    C18_Case(r) =>
      /\ PreUnverified(r) = {} => req[r].resp = "NOT_FOUND"
      /\ \A x \in PreUnverified(r) :
           req[r].code # x.code =>
             /\ req[r].resp # "VERIFIED"
             /\ StillValid(x) /\ x.attempts < 5 =>
                  /\ req[r].resp = "INVALID_CODE"
                  /\ PostOtps(r) = {[x EXCEPT !.attempts = @ + 1]}

\* The first validation after the re-issue, with the old code.
C18_Witness ==
  \E r \in ReqIds :
    /\ C18_Case(r)
    /\ req[r].resp = "INVALID_CODE"
    /\ \E x \in PreUnverified(r) : x.attempts = 0 /\ req[r].code # x.code

(***************************************************************************)
(* C19.  At most one unverified, unexpired record per (email, purpose).    *)
(***************************************************************************)
ActiveOtps(email, purpose) ==
  {x \in OtpsOf(otps, email, purpose) : ~x.isVerified /\ StillValid(x)}

C19_OneActivePerPair ==
  \A email \in OtpEmails, purpose \in OtpPurposes :
    Cardinality(ActiveOtps(email, purpose)) <= 1

(***************************************************************************)
(* C20.  A validation with the matching code on an unverified, unexpired   *)
(* record below 5 attempts marks it verified and returns its userId; a     *)
(* validation for a pair with no unverified record, the same right code    *)
(* included, fails with NOT_FOUND and changes nothing.                     *)
(***************************************************************************)
C20_AcceptedOnce ==
  \A r \in ReqIds :
    Answered(r, "validateOTP") =>
      /\ \A x \in PreUnverified(r) :
           StillValid(x) /\ x.attempts < 5 /\ req[r].code = x.code =>
             /\ req[r].resp = "VERIFIED"
             /\ req[r].userId = x.userId
             /\ PostOtps(r) = {[x EXCEPT !.attempts = @ + 1,
                                         !.isVerified = TRUE]}
      /\ PreUnverified(r) = {} =>
           req[r].resp = "NOT_FOUND" /\ PostOtps(r) \subseteq req[r].preOtps

\* The accepted code is presented again.
C20_Witness ==
  \E r \in ReqIds :
    /\ Answered(r, "validateOTP")
    /\ req[r].resp = "NOT_FOUND"
    /\ \E x \in req[r].preOtps :
         x.isVerified /\ x.code = req[r].code /\ StillValid(x) /\ x \in otps

(***************************************************************************)
(* C21.  Every step of a validation for (email, purpose p) leaves the      *)
(* records issued for any other purpose as they are, attempt counter and   *)
(* verified flag included, and verifyOTP accepts the code only when an     *)
(* unverified record of purpose p carries it.                              *)
(***************************************************************************)
C21_Step(r) ==
  req[r].op = "validateOTP" /\ req[r].pc # "done" /\ req'[r] # req[r] =>
    /\ {x \in otps' : x.purpose # req[r].purpose} =
         {x \in otps : x.purpose # req[r].purpose}
    /\ req[r].pc = "begin" /\ req'[r].resp = "VERIFIED" =>
         \E x \in otps :
           /\ x.email = req[r].email /\ x.purpose = req[r].purpose
           /\ ~x.isVerified /\ x.code = req[r].code

C21_NoCrossValidation == [][\A r \in ReqIds : C21_Step(r)]_vars

\* The code of the other purpose's valid record is presented.
C21_Witness ==
  \E r \in ReqIds :
    /\ Answered(r, "validateOTP")
    /\ req[r].resp \in {"NOT_FOUND", "INVALID_CODE"}
    /\ \A x \in OtpsOf(otps, req[r].email, req[r].purpose) :
         x.code # req[r].code
    /\ \E x \in otps :
         /\ x.email = req[r].email /\ x.purpose # req[r].purpose
         /\ x.code = req[r].code /\ ~x.isVerified /\ StillValid(x)
         /\ x.attempts = 0

(***************************************************************************)
(* Vocabulary of the event workflow properties.                            *)
(***************************************************************************)
\* The request's event before the request and now.
PreEvent(r) == req[r].preEvents[req[r].event]
PostEvent(r) == events[req[r].event]

\* Request r went through a handler that saves an existing event, and the
\* event is still stored.
EventSaved(r) ==
  /\ req[r].pc = "done"
  /\ req[r].op \in {"approveEvent", "rejectEvent", "updateEvent"}
  /\ PreEvent(r).exists /\ PostEvent(r).exists

\* protect let the request through.
Authenticated(r) == req[r].resp \notin {"USER_NOT_FOUND", "ACCOUNT_INACTIVE"}

(***************************************************************************)
(* C22.  A request to approve-event, reject-event or update-event changes  *)
(* an event's status only along pending -> approved, pending -> rejected,  *)
(* approved -> cancelled and approved -> completed.                        *)
(***************************************************************************)
AllowedTransitions ==
  {<<"pending", "approved">>, <<"pending", "rejected">>,
   <<"approved", "cancelled">>, <<"approved", "completed">>}

C22_StatusTransitions ==
  \A r \in ReqIds :
    EventSaved(r) /\ PostEvent(r).status # PreEvent(r).status =>
      <<PreEvent(r).status, PostEvent(r).status>> \in AllowedTransitions

(***************************************************************************)
(* C23.  No request of a non-admin changes an event's status: update-event *)
(* by the event's non-admin creator with a status in the body is answered  *)
(* with success, applies the capacity of the body and leaves the status,   *)
(* and approve-event and reject-event by a non-admin are refused with      *)
(* ADMIN_REQUIRED and change nothing.                                      *)
(***************************************************************************)
\* The status of every stored event is the one it had before the request.
StatusesKept(r) ==
  \A e \in EventIds :
    req[r].preEvents[e].exists /\ events[e].exists =>
      events[e].status = req[r].preEvents[e].status

NonAdminDone(r) ==
  /\ req[r].pc = "done" /\ Authenticated(r)
  /\ req[r].op \in {"createEvent", "updateEvent", "approveEvent",
                    "rejectEvent", "deleteEvent"}
  /\ req[r].role # "admin"

\* The part about the status and the refusals alone.
C23_StatusUntouched ==
  \A r \in ReqIds :
    NonAdminDone(r) =>
      /\ StatusesKept(r)
      /\ req[r].op \in {"approveEvent", "rejectEvent"} =>
           req[r].resp = "ADMIN_REQUIRED" /\ NothingChanged(r)

C23_NonAdminStatus ==
  \A r \in ReqIds :
    NonAdminDone(r) =>
      /\ StatusesKept(r)
      /\ req[r].op \in {"approveEvent", "rejectEvent"} =>
           req[r].resp = "ADMIN_REQUIRED" /\ NothingChanged(r)
      /\ ( /\ req[r].op = "updateEvent"
           /\ PreEvent(r).exists /\ PreEvent(r).createdBy = req[r].user
           /\ req[r].body.status # UndefStatus
           /\ req[r].body.capacity # Undef ) =>
           /\ req[r].resp = "EVENT_UPDATED"
           /\ PostEvent(r).capacity = req[r].body.capacity

(***************************************************************************)
(* C24.  Reject-event by an admin on a stored event: with a missing reason *)
(* or one whose trimmed length is below 5 it fails with                    *)
(* INVALID_REJECTION_REASON and leaves status and rejection reason; with a *)
(* valid reason it sets status rejected and stores the trimmed reason.     *)
(***************************************************************************)
C24_Case(r) ==
  /\ Answered(r, "rejectEvent") /\ Authenticated(r)
  /\ req[r].role = "admin" /\ PreEvent(r).exists

C24_Effect(r) ==
  IF InvalidReason(req[r].body.rejectionReason)
  THEN /\ req[r].resp = "INVALID_REJECTION_REASON"
       /\ PostEvent(r) = PreEvent(r)
  ELSE /\ req[r].resp = "EVENT_REJECTED"
       /\ PostEvent(r).status = "rejected"
       /\ PostEvent(r).rejectionReason = trim(req[r].body.rejectionReason)

C24_RejectReason == \A r \in ReqIds : C24_Case(r) => C24_Effect(r)

\* The same for the requests whose body passes the route's status validator.
C24_RejectReasonValidated ==
  \A r \in ReqIds :
    C24_Case(r) /\ ValidStatusBody(req[r].body) => C24_Effect(r)

(***************************************************************************)
(* C25.  Between requests, a cancelled event's currentAttendees is zero.   *)
(***************************************************************************)
C25_CancelledStaysZero ==
  InFlight = {} =>
    \A e \in EventIds :
      events[e].exists /\ events[e].status = "cancelled" =>
        events[e].currentAttendees = 0

(***************************************************************************)
(* C28.  Update-event and delete-event by an authenticated non-admin on a  *)
(* stored event are let through exactly when the requester is the event's  *)
(* creator; the others get PERMISSION_DENIED and nothing changes.          *)
(***************************************************************************)
C28_Case(r) ==
  /\ req[r].pc = "done" /\ Authenticated(r)
  /\ req[r].op \in {"updateEvent", "deleteEvent"}
  /\ req[r].role # "admin" /\ PreEvent(r).exists

C28_CreatorPermitted ==
  \A r \in ReqIds :
    C28_Case(r) =>
      /\ req[r].resp = "PERMISSION_DENIED" <=>
           PreEvent(r).createdBy # req[r].user
      /\ req[r].resp = "PERMISSION_DENIED" => NothingChanged(r)

\* The part about the requesters who are not the creator alone.
C28_OthersDenied ==
  \A r \in ReqIds :
    C28_Case(r) /\ PreEvent(r).createdBy # req[r].user =>
      req[r].resp = "PERMISSION_DENIED" /\ NothingChanged(r)

(***************************************************************************)
(* C29.  An event produced by create-event has status pending and          *)
(* currentAttendees 0, whatever the body and the role of the caller, and   *)
(* the request changes no other event.                                     *)
(***************************************************************************)
C29_CreatedPending ==
  \A r \in ReqIds :
    Answered(r, "createEvent") /\ req[r].resp = "EVENT_CREATED" =>
      /\ ~PreEvent(r).exists /\ PostEvent(r).exists
      /\ PostEvent(r).status = "pending"
      /\ PostEvent(r).currentAttendees = 0
      /\ PostEvent(r).createdBy = req[r].user
      /\ \A e \in EventIds \ {req[r].event} : events[e] = req[r].preEvents[e]

\* An admin creates an event with status and currentAttendees in the body.
C29_Witness ==
  \E r \in ReqIds :
    /\ Answered(r, "createEvent") /\ req[r].resp = "EVENT_CREATED"
    /\ req[r].role = "admin"
    /\ req[r].body.status = "approved" /\ req[r].body.currentAttendees = 1
    /\ PostEvent(r).exists

(***************************************************************************)
(* C30.  Update-event, approve-event and reject-event leave the event's    *)
(* currentAttendees as it was unless the resulting status is cancelled.    *)
(***************************************************************************)
C30_CounterFrame ==
  \A r \in ReqIds :
    EventSaved(r) /\ PostEvent(r).status # "cancelled" =>
      PostEvent(r).currentAttendees = PreEvent(r).currentAttendees

(***************************************************************************)
(* C26.  When the mail transport fails, register, add-RSVP (a new RSVP or  *)
(* a reactivation), approve-event and reject-event still answer with their *)
(* success response and their change stays: the step that sends the mail   *)
(* of register and add-RSVP changes nothing stored, so the user and the    *)
(* OTP, the attending RSVP and the counter stay as saved, and the approved *)
(* or rejected status is stored.                                           *)
(***************************************************************************)
MailFailed(r, op) == Answered(r, op) /\ req[r].mailFailed

\* The state left by a request whose mail was lost.
C26_Committed(r) ==
  /\ MailFailed(r, "register") =>
       /\ req[r].resp = "REGISTERED"
       /\ users[req[r].email].exists
       /\ \E x \in PostOtps(r) : x.code = req[r].code
  /\ MailFailed(r, "addRSVP") =>
       /\ AddSucceeded(r)
       /\ \E x \in PostRows(r) : x.status = "attending"
  /\ MailFailed(r, "approveEvent") =>
       /\ req[r].resp = "EVENT_APPROVED"
       /\ PostEvent(r).status = "approved"
  /\ MailFailed(r, "rejectEvent") =>
       /\ req[r].resp = "EVENT_REJECTED"
       /\ PostEvent(r).status = "rejected"
       /\ PostEvent(r).rejectionReason = trim(req[r].body.rejectionReason)

\* The step in which the mail of register or add-RSVP is lost.
C26_MailStep(r) ==
  ( /\ req[r].op \in {"register", "addRSVP"}
    /\ req[r].pc = "mail" /\ req'[r].pc = "done" /\ req'[r].mailFailed ) =>
    UNCHANGED <<users, events, rsvps, otps>>

C26_MailFailureIsolated ==
  /\ [](\A r \in ReqIds : C26_Committed(r))
  /\ [][\A r \in ReqIds : C26_MailStep(r)]_vars

\* The mail of a registration is lost.
C26_Witness ==
  \E r \in ReqIds :
    /\ MailFailed(r, "register")
    /\ users[req[r].email].exists /\ ~users[req[r].email].isActive

\* The mail of a reactivation, of an approval and of a rejection is lost.
C26_WitnessReactivation ==
  \E r \in ReqIds : MailFailed(r, "addRSVP") /\ ~req[r].isNew

C26_WitnessApprove == \E r \in ReqIds : MailFailed(r, "approveEvent")

C26_WitnessReject == \E r \in ReqIds : MailFailed(r, "rejectEvent")

(***************************************************************************)
(* C27.  A user created by register is inactive, and is active only once a *)
(* registration OTP of the user's email has been validated.                *)
(***************************************************************************)
\* A registration OTP of the email has been validated.
Validated(email) ==
  \E x \in OtpsOf(otps, email, "registration") : x.isVerified

\* The part about register alone.
C27_RegisteredInactive ==
  \A r \in ReqIds :
    Answered(r, "register") /\ req[r].resp = "REGISTERED" =>
      ~users[req[r].email].isActive

C27_InactiveUntilValidated ==
  /\ C27_RegisteredInactive
  /\ \A email \in OtpEmails :
       users[email].exists /\ users[email].isActive => Validated(email)

(***************************************************************************)
(* C33.  Between requests, an event carries a rejection reason only if its *)
(* status is rejected.                                                     *)
(***************************************************************************)
C33_ReasonOnlyWhenRejected ==
  InFlight = {} =>
    \A e \in EventIds :
      events[e].exists /\ events[e].rejectionReason # UndefReason =>
        events[e].status = "rejected"

(***************************************************************************)
(* C36.  An event's currentAttendees is never negative.                    *)
(***************************************************************************)
C36_CounterNonNegative ==
  \A e \in EventIds : events[e].exists => events[e].currentAttendees >= 0

(***************************************************************************)
(* C39.  Delete-user, update-user-status with isActive false and           *)
(* update-user-role by an admin whose target id is the admin's own id are  *)
(* refused with CANNOT_DELETE_SELF, CANNOT_DEACTIVATE_SELF and             *)
(* CANNOT_CHANGE_OWN_ROLE, and the admin's account stays as it was.        *)
(***************************************************************************)
C39_Case(r, op) ==
  /\ Answered(r, op) /\ Authenticated(r)
  /\ req[r].role = "admin" /\ req[r].target = req[r].user

C39_SelfProtected ==
  \A r \in ReqIds :
    /\ C39_Case(r, "deleteUser") =>
         req[r].resp = "CANNOT_DELETE_SELF" /\ users[req[r].user].exists
    /\ C39_Case(r, "updateUserRole") =>
         /\ req[r].resp = "CANNOT_CHANGE_OWN_ROLE"
         /\ users[req[r].user].role = "admin"
    /\ C39_Case(r, "updateUserStatus") /\ ~req[r].isActive =>
         /\ req[r].resp = "CANNOT_DEACTIVATE_SELF"
         /\ users[req[r].user].isActive

(***************************************************************************)
(* C32.  updateRSVP on an RSVP that was cancelled or waitlisted changes    *)
(* its guest count only if the same request makes it attending; a request  *)
(* that supplies numberOfGuests and no status for such an RSVP leaves the  *)
(* guest count and the event's counter as they were.                       *)
(***************************************************************************)
C32_Case(r) ==
  /\ Answered(r, "updateRSVP")
  /\ \E x \in PreRows(r) : x.status \in {"cancelled", "waitlisted"}

C32_GuestsOnly(r) ==
  C32_Case(r) /\ req[r].g # Undef /\ req[r].st = UndefStatus

C32_NonAttendingGuestsKept ==
  \A r \in ReqIds :
    /\ C32_Case(r) =>
         \A x \in PreRows(r) : \A y \in PostRows(r) :
           y.numberOfGuests # x.numberOfGuests => y.status = "attending"
    /\ C32_GuestsOnly(r) =>
         /\ \A x \in PreRows(r) : \A y \in PostRows(r) :
              y.numberOfGuests = x.numberOfGuests
         /\ PostCount(r) = PreCount(r)

C32_Witness ==
  \E r \in ReqIds :
    /\ C32_GuestsOnly(r) /\ req[r].resp = "UPDATED"
    /\ \E x \in PreRows(r) : req[r].g # x.numberOfGuests

C32_WitnessMoved ==
  \E r \in ReqIds :
    /\ C32_Case(r)
    /\ \E x \in PreRows(r) : \E y \in PostRows(r) :
         y.numberOfGuests # x.numberOfGuests

(***************************************************************************)
(* C34.  When two removeRSVP requests for the same RSVP both read it as    *)
(* attending, the event's currentAttendees is decremented by that RSVP's   *)
(* contribution exactly once.                                              *)
(***************************************************************************)
BothCancelled(r, q) ==
  /\ r # q
  /\ Answered(r, "removeRSVP") /\ Answered(q, "removeRSVP")
  /\ req[r].event = req[q].event /\ req[r].user = req[q].user
  /\ req[r].docId = req[q].docId
  /\ req[r].loadedStatus = "attending" /\ req[q].loadedStatus = "attending"

\* The counter before the first of the two decrements.
CountBeforeBoth(r, q) ==
  IF PreCount(r) >= PreCount(q) THEN PreCount(r) ELSE PreCount(q)

C34_CancelledOnce ==
  \A r, q \in ReqIds :
    BothCancelled(r, q) =>
      PostCount(r) = CountBeforeBoth(r, q) - totalPeople(req[r].loadedGuests)

(***************************************************************************)
(* C31.  Whether a capacity check (of addRSVP, of a reactivation, of a     *)
(* guest-count update) refuses a request is a function of the event's      *)
(* capacity and of its attending RSVP rows; the cached currentAttendees    *)
(* has no part in it.                                                      *)
(***************************************************************************)
\* The request is answered by a refusal of a capacity check.
CapacityRefused(r) == req[r].resp \in {"EVENT_FULL", "CAPACITY_EXCEEDED"}

\* What the rows and the capacity say of addRSVP's check.
RowsRefuseAdd(r) ==
  Occupancy(req[r].preRsvps, req[r].event) + 1 + req[r].g
    > req[r].preEvents[req[r].event].capacity

\* What the rows and the capacity say of updateRSVP's checks for the row x.
RowsRefuseUpdate(r, x) ==
  LET occ == Occupancy(req[r].preRsvps, req[r].event)
      cap == req[r].preEvents[req[r].event].capacity
      reactivates == x.status # "attending" /\ req[r].st = "attending"
      attendingAfter ==
        IF req[r].st = UndefStatus THEN x.status = "attending"
        ELSE req[r].st = "attending"
  IN \/ reactivates /\ occ + 1 + GuestsOr(req[r].g, x.numberOfGuests) > cap
     \/ /\ req[r].g # Undef /\ attendingAfter
        /\ newTotal(occ, x.numberOfGuests, req[r].g) > cap

\* The request has passed the checks that precede the capacity check.
ReachedCheck(r) ==
  /\ Authenticated(r)
  /\ req[r].resp \notin {"ADMIN_CANNOT_RSVP", "EVENT_NOT_FOUND",
                         "EVENT_NOT_APPROVED", "EVENT_PAST", "RSVP_NOT_FOUND"}

C31_AddCase(r, op) == Answered(r, op) /\ ReachedCheck(r)

C31_UpdateCase(r) == Answered(r, "updateRSVP") /\ ReachedCheck(r)

\* addRSVP and updateRSVP of controllers/event.controller.js.
C31_ChecksReadRows ==
  \A r \in ReqIds :
    /\ C31_AddCase(r, "addRSVP") => (CapacityRefused(r) <=> RowsRefuseAdd(r))
    /\ C31_UpdateCase(r) =>
         \A x \in PreRows(r) : CapacityRefused(r) <=> RowsRefuseUpdate(r, x)

\* The same with addRSVP of controllers/rsvp.controller.js.
C31_CounterIndependence ==
  /\ C31_ChecksReadRows
  /\ \A r \in ReqIds :
       C31_AddCase(r, "addRSVPCached")
         => (CapacityRefused(r) <=> RowsRefuseAdd(r))

(***************************************************************************)
(* C35.  At most 5 validation requests reach the code comparison of one    *)
(* OTP record, under every interleaving: every request that reaches the    *)
(* comparison is counted by the record's attempts, so two requests that    *)
(* compare against the same record do so under different counts, and the   *)
(* fifth and last allowed comparison is made by one request only.          *)
(***************************************************************************)
\* verifyOTP has incremented attempts, which it does right before comparing.
Compared(r) ==
  /\ req[r].op = "validateOTP" /\ req[r].pc \in {"otp_save", "done"}
  /\ req[r].isNew

SameRecord(r, q) ==
  /\ req[r].email = req[q].email /\ req[r].purpose = req[q].purpose
  /\ req[r].docId = req[q].docId

C35_AttemptCap ==
  \A r, q \in ReqIds :
    r # q /\ Compared(r) /\ Compared(q) /\ SameRecord(r, q)
      => req[r].attempts # req[q].attempts

\* Four counted comparisons, then two requests that both make the fifth.
C35_FifthComparisonOnce ==
  \A r, q \in ReqIds :
    r # q /\ Compared(r) /\ Compared(q) /\ SameRecord(r, q)
      => ~(req[r].attempts = MaxAttempts /\ req[q].attempts = MaxAttempts)

(***************************************************************************)
(* C37.  A login, a token refresh or a protected operation succeeds only   *)
(* for a user who exists and is active when the request is made, whatever  *)
(* token the request carries.                                              *)
(***************************************************************************)
\* The user was stored and active when request r arrived.
ActiveAtRequest(r, u) ==
  u \in UserIds /\ req[r].preUsers[u].exists /\ req[r].preUsers[u].isActive

\* The operations behind protect that answer with a success.
ProtectedDone(r) ==
  \/ Answered(r, "updateUserStatus") /\ req[r].resp = "STATUS_UPDATED"
  \/ Answered(r, "deleteUser") /\ req[r].resp = "USER_DELETED"

C37_InactiveRefused ==
  \A r \in ReqIds :
    /\ Answered(r, "login") /\ req[r].resp = "LOGIN_OK"
         => ActiveAtRequest(r, req[r].email)
    /\ Answered(r, "refreshToken") /\ req[r].resp = "TOKEN_REFRESHED"
         => ActiveAtRequest(r, req[r].user)
    /\ ProtectedDone(r) => ActiveAtRequest(r, req[r].user)

\* A deactivated user with the right password has been refused at login.
C37_Witness ==
  \E r \in ReqIds :
    /\ Answered(r, "login") /\ req[r].resp = "ACCOUNT_INACTIVE"
    /\ users[req[r].email].password = req[r].password

\* A deleted user has been refused at login.
C37_WitnessDeleted ==
  \E r \in ReqIds :
    /\ Answered(r, "login") /\ req[r].resp = "INVALID_CREDENTIALS"
    /\ ~users[req[r].email].exists

\* The refresh token of a deactivated, and of a deleted, user is refused.
C37_WitnessRefresh ==
  \E r \in ReqIds :
    /\ Answered(r, "refreshToken") /\ req[r].resp = "USER_INVALID"
    /\ users[req[r].user].exists /\ ~users[req[r].user].isActive

C37_WitnessRefreshDeleted ==
  \E r \in ReqIds :
    /\ Answered(r, "refreshToken") /\ req[r].resp = "USER_INVALID"
    /\ ~users[req[r].user].exists

\* The access token of a deactivated admin is refused by protect.
C37_WitnessProtected ==
  \E r \in ReqIds :
    /\ req[r].op \in {"updateUserStatus", "deleteUser"}
    /\ req[r].pc = "done" /\ req[r].resp = "ACCOUNT_INACTIVE"
    /\ req[r].role = "admin"

(***************************************************************************)
(* C38.  resetPassword changes a password only when the validation of the  *)
(* password_reset OTP in the same request succeeded, and then only the     *)
(* password of the user the OTP record names; when the validation fails    *)
(* (no record, expired, attempts exceeded, wrong code) no user's password  *)
(* has changed.                                                            *)
(***************************************************************************)
\* The validation of request r cannot succeed on the record x.
FailsOn(r, x) ==
  \/ x.expiresAt < req[r].preNow
  \/ x.attempts >= MaxAttempts
  \/ x.code # req[r].code

ValidationFails(r) ==
  \A x \in Unverified(req[r].preOtps, req[r].email, "password_reset") :
    FailsOn(r, x)

\* Nothing but the password of user u has changed in the users.
OnlyPasswordOf(r, u) ==
  /\ u \in UserIds
  /\ users = [req[r].preUsers EXCEPT ![u].password = req[r].password]

C38_ResetNeedsValidOtp ==
  \A r \in ReqIds :
    Answered(r, "resetPassword") =>
      /\ users # req[r].preUsers =>
           /\ \E x \in Unverified(req[r].preOtps, req[r].email,
                                  "password_reset") :
                /\ ~FailsOn(r, x)
                /\ OnlyPasswordOf(r, x.userId)
           /\ req[r].resp = "PASSWORD_RESET"
      /\ ValidationFails(r) =>
           users = req[r].preUsers /\ req[r].resp = "OTP_VALIDATION_FAILED"

\* A password has been reset.
C38_Witness ==
  \E r \in ReqIds :
    /\ Answered(r, "resetPassword") /\ req[r].resp = "PASSWORD_RESET"
    /\ users[req[r].email].password = "changed"
    /\ req[r].preUsers[req[r].email].password = "initial"

\* Each kind of failed validation has been answered.
C38_WitnessExpired ==
  \E r \in ReqIds :
    /\ Answered(r, "resetPassword") /\ req[r].resp = "OTP_VALIDATION_FAILED"
    /\ \E x \in req[r].preOtps :
         x.code = req[r].code /\ x.expiresAt < req[r].preNow

C38_WitnessWrongCode ==
  \E r \in ReqIds :
    /\ Answered(r, "resetPassword") /\ req[r].resp = "OTP_VALIDATION_FAILED"
    /\ \E x \in req[r].preOtps : x.code # req[r].code

C38_WitnessNotFound ==
  \E r \in ReqIds :
    /\ Answered(r, "resetPassword") /\ req[r].resp = "OTP_VALIDATION_FAILED"
    /\ req[r].preOtps = {}

====
